---------------------------- MODULE Spec2Model ----------------------------
(***************************************************************************)
(* State-machine model of the hex map editor component (HexMapEditor,      *)
(* src/unnamed/part_000): the map document, the selection state, the       *)
(* marker registry, the brush and the pointer-stroke handlers.  Every      *)
(* action is one event handler of the component, run to completion.        *)
(***************************************************************************)
EXTENDS Integers, Sequences, FiniteSets, TLC

\* ------------------------------------------------------------------------
\* Bounds of the model and program constants
\* ------------------------------------------------------------------------
NumTiles == 2
MaxPointer == 1
MaxOffset == 1
MaxCount == 2
MaxDocTier == 1
ImportTierLo == 2
ImportTierHi == 5
MaxSpawn == 2

TierMin == 0
TierMax == 3

Null == [null |-> TRUE]

TERRAIN_COLOURS == {"grass", "water"}
Assets == {"", "tree"}
BrushTiers == TierMin .. TierMax
ImportTiers == (0 - ImportTierLo) .. ImportTierHi
EditModes == {"terrain", "spawn", "goal"}
PointerPos == {[x |-> a, y |-> b] : a \in 0 .. MaxPointer, b \in {0}}
TileIds == 1 .. NumTiles

Max(a, b) == IF a > b THEN a ELSE b
Min(a, b) == IF a < b THEN a ELSE b

\* ------------------------------------------------------------------------
\* Documents
\* ------------------------------------------------------------------------
Hex(i, te, ti, as) ==
    [id |-> i, q |-> i - 1, r |-> 0, terrain |-> te, tier |-> ti, asset |-> as]

TileStates(tiers) == [terrain : TERRAIN_COLOURS, tier : tiers]

MapData(f) ==
    [hexSize |-> 1, orientation |-> "pointy",
     map |-> [i \in TileIds |-> Hex(i, f[i].terrain, f[i].tier, "")],
     spawnPoints |-> << >>, worldTree |-> Null]

DocSet(tiers) == {MapData(f) : f \in [TileIds -> TileStates(tiers)]}

\* ------------------------------------------------------------------------
\* JSON values and files
\* ------------------------------------------------------------------------
\* A JSON object is a record holding the keys it has; the value undefined
\* of a key of an object under construction is Undefined, any other value v
\* is Field(v).
Undefined == [undefined |-> TRUE]
Field(v) == [val |-> v]

\* A file text that JSON.parse rejects; every other text is written as the
\* JSON value it denotes (Null for the text "null").
Malformed == [malformed |-> TRUE]

Files == {"a.json", "b.json"}
Coords == {[q |-> i - 1, r |-> 0] : i \in TileIds}
SpawnLists == UNION {[1 .. n -> Coords] : n \in 0 .. MaxSpawn}
OptionalKeys == {"spawnPoints", "worldTree"}

\* The document with tiles f that has the optional keys in keys, with the
\* spawn list sp and the goal wt (Null for "worldTree": null).
ImportDoc(f, keys, sp, wt) ==
    [k \in (DOMAIN MapData(f) \ OptionalKeys) \cup keys |->
        IF k = "spawnPoints" THEN sp
        ELSE IF k = "worldTree" THEN wt
        ELSE MapData(f)[k]]

\* The tiles that all have terrain te and tier TierMin.
Plain(te) == [i \in TileIds |-> [terrain |-> te, tier |-> TierMin]]

ImportDocs(maps, lists, goals) ==
    {ImportDoc(f, keys, sp, wt) :
        f \in maps, keys \in SUBSET OptionalKeys, sp \in lists, wt \in goals}

\* JSON.parse(text)
JsonParse(text) == [throws |-> text = Malformed, value |-> text]

\* JSON.stringify(obj): the keys whose value is undefined are left out.
JsonStringify(obj) ==
    [k \in {j \in DOMAIN obj : obj[j] # Undefined} |-> obj[k].val]

VARIABLES
    data, selected, selectedMultiple,
    editMode, spawnPoints, worldTree,
    brushEnabled, brushTerrain, brushTier,
    isBrushPainting, paintedInStroke, isPanning, isDragSelecting,
    offset, start,
    defaultLoad,
    lastFileHandle, lastFileName,
    ev, stroke, pristine,
    stateFile, hook, loop,
    probe, app

vars == <<data, selected, selectedMultiple, editMode, spawnPoints, worldTree,
          brushEnabled, brushTerrain, brushTier,
          isBrushPainting, paintedInStroke, isPanning, isDragSelecting,
          offset, start, defaultLoad, lastFileHandle, lastFileName,
          ev, stroke, pristine, stateFile, hook, loop, probe, app>>

\* The event that produced the current state (history variable).
Event(type, hex, ctrl, key, val) ==
    [type |-> type, hex |-> hex, ctrl |-> ctrl, key |-> key, val |-> val]

NoEvent == Event("init", 0, FALSE, "", 0)

\* Per-stroke bookkeeping of brush paints (history variable): whether the
\* brush and the tiles were left alone by everything but paints since the
\* stroke began, the paint attempts per id, the ids that differed from the
\* brush when the stroke began, and the document mutations per id; for a
\* drag-select stroke, the multi-set at pointer-down, kept while nothing but
\* pointer events followed.
NoStroke ==
    [fixed |-> FALSE, visits |-> [i \in TileIds |-> 0], startDiff |-> {},
     paints |-> [i \in TileIds |-> 0], dragOnly |-> FALSE, base |-> {}]

InitEditor ==
    /\ data = Null
    /\ selected = Null
    /\ selectedMultiple = {}
    /\ editMode = "terrain"
    /\ spawnPoints = << >>
    /\ worldTree = Null
    /\ brushEnabled = FALSE
    /\ brushTerrain = "grass"
    /\ brushTier = 0
    /\ isBrushPainting = FALSE
    /\ paintedInStroke = {}
    /\ isPanning = FALSE
    /\ isDragSelecting = FALSE
    /\ offset = [x |-> 0, y |-> 0]
    /\ start = [x |-> 0, y |-> 0]
    /\ defaultLoad = "pending"
    /\ lastFileHandle = Null
    /\ lastFileName = "map.json"
    /\ ev = NoEvent
    /\ stroke = NoStroke
    /\ pristine = Null

Init ==
    /\ InitEditor
    /\ stateFile = Null
    /\ hook = Null
    /\ loop = Null
    /\ probe = Null
    /\ app = Null


\* The component reads and writes nothing but its own state: the state file
\* of the stop hook and the record of the last function application stay as
\* they are in every handler.
EditorOnly == UNCHANGED <<stateFile, hook, loop, probe, app>>

\* What every handler outside file IO leaves alone: the remembered file
\* handle and file name.  History: the imported document stays remembered
\* while the document and the markers are the ones the import produced.
FileKept ==
    /\ EditorOnly
    /\ UNCHANGED <<lastFileHandle, lastFileName>>
    /\ pristine' = IF data' = data /\ spawnPoints' = spawnPoints
                       /\ worldTree' = worldTree
                    THEN pristine ELSE Null

\* ------------------------------------------------------------------------
\* Helpers of the component
\* ------------------------------------------------------------------------
SpawnPointsOf_KeepsOld(parsed) ==
    IF "spawnPoints" \in DOMAIN parsed THEN parsed.spawnPoints ELSE spawnPoints

\* parsed.spawnPoints ?? []
SpawnPointsOf(parsed) ==
    IF "spawnPoints" \in DOMAIN parsed THEN parsed.spawnPoints ELSE << >>

\* parsed.worldTree ?? null
WorldTreeOf(parsed) ==
    IF "worldTree" \in DOMAIN parsed THEN parsed.worldTree ELSE Null

\* data.map.map(h => pred(h) ? {...h, ...change} : h)
MapTiles_KeepsEdited(d, ids, k, v) ==
    [d EXCEPT !.map = SelectSeq(
        [i \in DOMAIN d.map |->
            IF d.map[i].id \in ids THEN [d.map[i] EXCEPT ![k] = v] ELSE d.map[i]],
        LAMBDA h : h.id \in ids)]

MapTiles(d, ids, k, v) ==
    [d EXCEPT !.map = [i \in DOMAIN d.map |->
        IF d.map[i].id \in ids THEN [d.map[i] EXCEPT ![k] = v] ELSE d.map[i]]]

UpdateHexData_AlsoFocus(k, v) ==
    IF data = Null THEN data
    ELSE IF selectedMultiple # {}
         THEN MapTiles(data, selectedMultiple \cup
                  (IF selected # Null THEN {selected.id} ELSE {}), k, v)
    ELSE IF selected # Null THEN MapTiles(data, {selected.id}, k, v)
    ELSE data

\* updateHex(k, v): the document it leaves.
UpdateHexData(k, v) ==
    IF data = Null THEN data
    ELSE IF selectedMultiple # {} THEN MapTiles(data, selectedMultiple, k, v)
    ELSE IF selected # Null THEN MapTiles(data, {selected.id}, k, v)
    ELSE data

UpdateHexSelected_AlwaysFocus(k, v) ==
    IF data = Null THEN selected
    ELSE IF selected # Null THEN [selected EXCEPT ![k] = v]
    ELSE selected

\* updateHex(k, v): the focus record it leaves.
UpdateHexSelected(k, v) ==
    IF data = Null THEN selected
    ELSE IF selectedMultiple # {}
         THEN IF selected # Null /\ selected.id \in selectedMultiple
              THEN [selected EXCEPT ![k] = v] ELSE selected
    ELSE IF selected # Null THEN [selected EXCEPT ![k] = v]
    ELSE selected

ToggleSpawnPoint_RemovesFirst(prev, q, r) ==
    IF \E i \in DOMAIN prev : prev[i].q = q /\ prev[i].r = r
    THEN LET k == CHOOSE i \in DOMAIN prev :
                     /\ prev[i].q = q /\ prev[i].r = r
                     /\ \A j \in 1 .. i - 1 : ~(prev[j].q = q /\ prev[j].r = r)
         IN  SubSeq(prev, 1, k - 1) \o SubSeq(prev, k + 1, Len(prev))
    ELSE Append(prev, [q |-> q, r |-> r])

\* toggleSpawnPoint(q, r) on the spawn list prev.
ToggleSpawnPoint(prev, q, r) ==
    IF \E i \in DOMAIN prev : prev[i].q = q /\ prev[i].r = r
    THEN SelectSeq(prev, LAMBDA sp : ~(sp.q = q /\ sp.r = r))
    ELSE Append(prev, [q |-> q, r |-> r])

SetWorldTreeAt_ClearsAny(q, r) ==
    IF worldTree # Null THEN Null ELSE [q |-> q, r |-> r]

SetWorldTreeAt_AlwaysSets(q, r) ==
    [q |-> q, r |-> r]

\* setWorldTreeAt(q, r)
SetWorldTreeAt(q, r) ==
    IF worldTree # Null /\ worldTree.q = q /\ worldTree.r = r
    THEN Null ELSE [q |-> q, r |-> r]

PaintSkips_NoMatchCheck(hex, painted) ==
    \/ data = Null
    \/ hex.id \in painted

\* paintHexWithBrush(hex): the early returns.
PaintSkips(hex, painted) ==
    \/ data = Null
    \/ hex.id \in painted
    \/ (hex.terrain = brushTerrain /\ hex.tier = brushTier)

PaintRecord_AddsMatching(hex, painted) ==
    IF data = Null \/ hex.id \in painted THEN painted ELSE painted \cup {hex.id}

\* paintHexWithBrush(hex): the painted record it leaves.
PaintRecord(hex, painted) ==
    IF PaintSkips(hex, painted) THEN painted ELSE painted \cup {hex.id}

PaintData_ResetsAsset(hex, painted) ==
    IF PaintSkips(hex, painted) THEN data
    ELSE [data EXCEPT !.map = [i \in DOMAIN data.map |->
            IF data.map[i].id = hex.id
            THEN [data.map[i] EXCEPT !.terrain = brushTerrain, !.tier = brushTier,
                                     !.asset = ""]
            ELSE data.map[i]]]

\* paintHexWithBrush(hex): the document it leaves.
PaintData(hex, painted) ==
    IF PaintSkips(hex, painted) THEN data
    ELSE [data EXCEPT !.map = [i \in DOMAIN data.map |->
            IF data.map[i].id = hex.id
            THEN [data.map[i] EXCEPT !.terrain = brushTerrain, !.tier = brushTier]
            ELSE data.map[i]]]

\* The tiles a pointer position can resolve to (findHexAtPoint): index 0 is a
\* miss, index i the i-th tile of the document.
HitResults == IF data = Null THEN {0} ELSE 0 .. Len(data.map)

\* History: the stroke bookkeeping after a paint attempt on hex.
StrokeAfterPaint(s, hex, painted) ==
    IF ~s.fixed THEN s
    ELSE [s EXCEPT !.visits[hex.id] = Min(@ + 1, MaxCount),
                   !.paints[hex.id] =
                       IF PaintSkips(hex, painted) THEN @ ELSE Min(@ + 1, MaxCount)]

StrokeBegin ==
    [NoStroke EXCEPT
       !.fixed = TRUE,
       !.startDiff = {data.map[i].id : i \in {j \in DOMAIN data.map :
                      ~(data.map[j].terrain = brushTerrain /\ data.map[j].tier = brushTier)}}]

\* ------------------------------------------------------------------------
\* Pointer strokes on the canvas (the svg exists only while a document does)
\* ------------------------------------------------------------------------
\* The branch onMouseDown takes for the primary button.
StrokeMode_ModifierFirst(ctrl) ==
    IF ctrl /\ editMode = "terrain" THEN "drag"
    ELSE IF brushEnabled /\ editMode = "terrain" THEN "brush"
    ELSE "pan"

StrokeMode(ctrl) ==
    IF brushEnabled /\ editMode = "terrain" THEN "brush"
    ELSE IF ctrl /\ editMode = "terrain" THEN "drag"
    ELSE "pan"

FlagsAtDown_NoReset(mode) ==
    [isBrushPainting |-> isBrushPainting \/ mode = "brush",
     isPanning |-> isPanning \/ mode = "pan",
     isDragSelecting |-> isDragSelecting \/ mode = "drag"]

\* The three flag assignments every branch of onMouseDown makes.
FlagsAtDown(mode) ==
    [isBrushPainting |-> mode = "brush",
     isPanning |-> mode = "pan",
     isDragSelecting |-> mode = "drag"]

OnMouseDown(button, ctrl, pt, h) ==
    /\ data # Null
    /\ h \in HitResults
    /\ ev' = Event("down", h, ctrl, "button", button)
    /\ UNCHANGED <<selected, selectedMultiple, editMode, spawnPoints, worldTree,
                   brushEnabled, brushTerrain, brushTier, offset, defaultLoad>>
    /\ IF button # 0
       THEN UNCHANGED <<data, isBrushPainting, paintedInStroke, isPanning,
                        isDragSelecting, start, stroke>>
       ELSE /\ isBrushPainting' = FlagsAtDown(StrokeMode(ctrl)).isBrushPainting
            /\ isPanning' = FlagsAtDown(StrokeMode(ctrl)).isPanning
            /\ isDragSelecting' = FlagsAtDown(StrokeMode(ctrl)).isDragSelecting
            /\ IF StrokeMode(ctrl) = "brush"
               THEN /\ IF h = 0
                       THEN /\ paintedInStroke' = {}
                            /\ data' = data
                            /\ stroke' = StrokeBegin
                       ELSE /\ paintedInStroke' = PaintRecord(data.map[h], {})
                            /\ data' = PaintData(data.map[h], {})
                            /\ stroke' = StrokeAfterPaint(StrokeBegin, data.map[h], {})
                    /\ start' = start
               ELSE IF StrokeMode(ctrl) = "drag"
               THEN /\ stroke' = [NoStroke EXCEPT !.dragOnly = TRUE,
                                                  !.base = selectedMultiple]
                    /\ UNCHANGED <<data, paintedInStroke, start>>
               ELSE /\ start' = [x |-> pt.x - offset.x, y |-> pt.y - offset.y]
                    /\ stroke' = NoStroke
                    /\ UNCHANGED <<data, paintedInStroke>>
    /\ FileKept

MoveMode_Reevaluates(ctrl) ==
    IF isBrushPainting /\ brushEnabled THEN "brush"
    ELSE IF (isDragSelecting \/ isPanning) /\ ctrl THEN "drag"
    ELSE IF ~isPanning THEN "none"
    ELSE "pan"

\* The branch onMouseMove takes.
MoveMode(ctrl) ==
    IF isBrushPainting /\ brushEnabled THEN "brush"
    ELSE IF isDragSelecting /\ ctrl THEN "drag"
    ELSE IF ~isPanning THEN "none"
    ELSE "pan"

DragSelectAdd_Toggles(prev, hex) ==
    IF hex.id \in prev THEN prev \ {hex.id} ELSE prev \cup {hex.id}

\* The updater a drag-select move applies to the multi-set.
DragSelectAdd(prev, hex) ==
    IF hex.id \in prev THEN prev ELSE prev \cup {hex.id}

OnMouseMove(ctrl, pt, h) ==
    /\ data # Null
    /\ h \in HitResults
    /\ ev' = Event("move", h, ctrl, "pt", pt)
    /\ UNCHANGED <<editMode, spawnPoints, worldTree, brushEnabled, brushTerrain,
                   brushTier, isBrushPainting, isPanning, isDragSelecting, start,
                   defaultLoad>>
    /\ IF MoveMode(ctrl) = "brush"
       THEN /\ IF h = 0
               THEN UNCHANGED <<data, paintedInStroke, stroke>>
               ELSE /\ paintedInStroke' = PaintRecord(data.map[h], paintedInStroke)
                    /\ data' = PaintData(data.map[h], paintedInStroke)
                    /\ stroke' = StrokeAfterPaint(stroke, data.map[h], paintedInStroke)
            /\ UNCHANGED <<selected, selectedMultiple, offset>>
       ELSE IF MoveMode(ctrl) = "drag"
       THEN /\ IF h = 0
               THEN UNCHANGED <<selected, selectedMultiple>>
               ELSE /\ selectedMultiple' = DragSelectAdd(selectedMultiple, data.map[h])
                    /\ selected' = data.map[h]
            /\ UNCHANGED <<data, paintedInStroke, offset, stroke>>
       ELSE IF MoveMode(ctrl) = "none"
       THEN UNCHANGED <<data, selected, selectedMultiple, paintedInStroke, offset, stroke>>
       ELSE /\ offset' = [x |-> pt.x - start.x, y |-> pt.y - start.y]
            /\ offset'.x \in (0 - MaxOffset) .. MaxOffset
            /\ UNCHANGED <<data, selected, selectedMultiple, paintedInStroke, stroke>>
    /\ FileKept

OnMouseUp_KeepsRecord(type) ==
    /\ data # Null
    /\ ev' = Event(type, 0, FALSE, "painted", paintedInStroke)
    /\ isPanning' = FALSE
    /\ isDragSelecting' = FALSE
    /\ isBrushPainting' = FALSE
    /\ stroke' = IF stroke.dragOnly THEN stroke ELSE NoStroke
    /\ UNCHANGED <<data, selected, selectedMultiple, editMode, spawnPoints, worldTree,
                   brushEnabled, brushTerrain, brushTier, offset, start, defaultLoad,
                   paintedInStroke>>
    /\ FileKept

\* onMouseUp, wired to both mouseup and mouseleave of the canvas.
OnMouseUp(type) ==
    /\ data # Null
    /\ ev' = Event(type, 0, FALSE, "painted", paintedInStroke)
    /\ isPanning' = FALSE
    /\ isDragSelecting' = FALSE
    /\ isBrushPainting' = FALSE
    /\ paintedInStroke' = {}
    /\ stroke' = IF stroke.dragOnly THEN stroke ELSE NoStroke
    /\ UNCHANGED <<data, selected, selectedMultiple, editMode, spawnPoints, worldTree,
                   brushEnabled, brushTerrain, brushTier, offset, start, defaultLoad>>
    /\ FileKept


\* ------------------------------------------------------------------------
\* Default document (the fetch started on mount resolves)
\* ------------------------------------------------------------------------
LoadDefault(parsed) ==
    /\ defaultLoad = "pending"
    /\ defaultLoad' = "done"
    /\ data' = parsed
    /\ spawnPoints' = SpawnPointsOf(parsed)
    /\ worldTree' = WorldTreeOf(parsed)
    /\ ev' = Event("load", 0, FALSE, "", 0)
    /\ stroke' = NoStroke
    /\ UNCHANGED <<selected, selectedMultiple, editMode, brushEnabled, brushTerrain,
                   brushTier, isBrushPainting, paintedInStroke, isPanning,
                   isDragSelecting, offset, start>>
    /\ FileKept

\* ------------------------------------------------------------------------
\* Tile click
\* ------------------------------------------------------------------------
ToggleMulti_NoSeed(hex) ==
    IF hex.id \in selectedMultiple
    THEN selectedMultiple \ {hex.id} ELSE selectedMultiple \cup {hex.id}

\* Ctrl+click: the multi-set left by the updater.
ToggleMulti(hex) ==
    LET seeded == IF selectedMultiple = {} /\ selected # Null /\ selected.id # hex.id
                  THEN {selected.id} ELSE selectedMultiple
    IN  IF hex.id \in seeded THEN seeded \ {hex.id} ELSE seeded \cup {hex.id}

ClickMulti_KeepsMulti(hex, ctrl) ==
    IF ctrl THEN ToggleMulti(hex) ELSE selectedMultiple

\* The multi-set a tile click leaves in terrain mode.
ClickMulti(hex, ctrl) ==
    IF ctrl THEN ToggleMulti(hex) ELSE {}

\* History of a marker operation at the coordinate of tile h: the marker
\* value it met and, when the event before it was the same operation at the
\* same coordinate, the value that one met.
Toggled(key, h, before) ==
    [before |-> before,
     first |-> IF ev.key = key /\ ev.hex = h THEN Field(ev.val.before) ELSE Undefined]

HandleHexClick_MarkerClickSelects(h, ctrl) ==
    /\ data # Null
    /\ h \in HitResults \ {0}
    /\ ev' = IF editMode = "spawn"
             THEN Event("click", h, ctrl, "spawn", Toggled("spawn", h, spawnPoints))
             ELSE IF editMode = "goal"
             THEN Event("click", h, ctrl, "goal", Toggled("goal", h, worldTree))
             ELSE Event("click", h, ctrl, "multi", selectedMultiple)
    /\ stroke' = [stroke EXCEPT !.dragOnly = FALSE, !.base = {}]
    /\ UNCHANGED <<data, editMode, brushEnabled, brushTerrain, brushTier,
                   isBrushPainting, paintedInStroke, isPanning, isDragSelecting,
                   offset, start, defaultLoad>>
    /\ selectedMultiple' = ClickMulti(data.map[h], ctrl)
    /\ selected' = data.map[h]
    /\ IF editMode = "spawn"
       THEN /\ spawnPoints' = ToggleSpawnPoint(spawnPoints, data.map[h].q, data.map[h].r)
            /\ UNCHANGED worldTree
       ELSE IF editMode = "goal"
       THEN /\ worldTree' = SetWorldTreeAt(data.map[h].q, data.map[h].r)
            /\ UNCHANGED spawnPoints
       ELSE UNCHANGED <<spawnPoints, worldTree>>
    /\ FileKept

HandleHexClick(h, ctrl) ==
    /\ data # Null
    /\ h \in HitResults \ {0}
    /\ ev' = IF editMode = "spawn"
             THEN Event("click", h, ctrl, "spawn", Toggled("spawn", h, spawnPoints))
             ELSE IF editMode = "goal"
             THEN Event("click", h, ctrl, "goal", Toggled("goal", h, worldTree))
             ELSE Event("click", h, ctrl, "multi", selectedMultiple)
    /\ stroke' = [stroke EXCEPT !.dragOnly = FALSE, !.base = {}]
    /\ UNCHANGED <<data, editMode, brushEnabled, brushTerrain, brushTier,
                   isBrushPainting, paintedInStroke, isPanning, isDragSelecting,
                   offset, start, defaultLoad>>
    /\ IF editMode = "spawn"
       THEN /\ spawnPoints' = ToggleSpawnPoint(spawnPoints, data.map[h].q, data.map[h].r)
            /\ UNCHANGED <<worldTree, selected, selectedMultiple>>
       ELSE IF editMode = "goal"
       THEN /\ worldTree' = SetWorldTreeAt(data.map[h].q, data.map[h].r)
            /\ UNCHANGED <<spawnPoints, selected, selectedMultiple>>
       ELSE /\ selectedMultiple' = ClickMulti(data.map[h], ctrl)
            /\ selected' = data.map[h]
            /\ UNCHANGED <<spawnPoints, worldTree>>
    /\ FileKept

\* ------------------------------------------------------------------------
\* Sidebar: edit mode and brush controls
\* ------------------------------------------------------------------------
SetEditMode(m) ==
    /\ data # Null
    /\ editMode' = m
    /\ ev' = Event("mode", 0, FALSE, "editMode", m)
    /\ UNCHANGED <<data, selected, selectedMultiple, spawnPoints, worldTree,
                   brushEnabled, brushTerrain, brushTier, isBrushPainting,
                   paintedInStroke, isPanning, isDragSelecting, offset, start,
                   defaultLoad, stroke>>
    /\ FileKept

ToggleBrush ==
    /\ data # Null
    /\ editMode = "terrain"
    /\ brushEnabled' = ~brushEnabled
    /\ ev' = Event("brush", 0, FALSE, "enabled", ~brushEnabled)
    /\ stroke' = NoStroke
    /\ UNCHANGED <<data, selected, selectedMultiple, editMode, spawnPoints, worldTree,
                   brushTerrain, brushTier, isBrushPainting, paintedInStroke,
                   isPanning, isDragSelecting, offset, start, defaultLoad>>
    /\ FileKept

SetBrushTerrain(t) ==
    /\ data # Null
    /\ editMode = "terrain"
    /\ brushEnabled
    /\ brushTerrain' = t
    /\ ev' = Event("brush", 0, FALSE, "terrain", t)
    /\ stroke' = NoStroke
    /\ UNCHANGED <<data, selected, selectedMultiple, editMode, spawnPoints, worldTree,
                   brushEnabled, brushTier, isBrushPainting, paintedInStroke,
                   isPanning, isDragSelecting, offset, start, defaultLoad>>
    /\ FileKept

SetBrushTier(t) ==
    /\ data # Null
    /\ editMode = "terrain"
    /\ brushEnabled
    /\ brushTier' = t
    /\ ev' = Event("brush", 0, FALSE, "tier", t)
    /\ stroke' = NoStroke
    /\ UNCHANGED <<data, selected, selectedMultiple, editMode, spawnPoints, worldTree,
                   brushEnabled, brushTerrain, isBrushPainting, paintedInStroke,
                   isPanning, isDragSelecting, offset, start, defaultLoad>>
    /\ FileKept

\* ------------------------------------------------------------------------
\* Field edits: the details panel and the canvas wheel
\* ------------------------------------------------------------------------
\* What every caller of updateHex(k, v) does to the state.
UpdateHex(src, k, v) ==
    /\ data' = UpdateHexData(k, v)
    /\ selected' = UpdateHexSelected(k, v)
    /\ ev' = Event(src, 0, FALSE, k, v)
    /\ stroke' = NoStroke
    /\ UNCHANGED <<selectedMultiple, editMode, spawnPoints, worldTree, brushEnabled,
                   brushTerrain, brushTier, isBrushPainting, paintedInStroke,
                   isPanning, isDragSelecting, offset, start, defaultLoad>>
    /\ FileKept

\* The panel is rendered while a focus tile exists in terrain mode.
PanelShown == selected # Null /\ editMode = "terrain"

WheelDelta(deltaY) == IF deltaY > 0 THEN 0 - 1 ELSE 1

Clamp_CeilingOnly(t) == Min(TierMax, t)

\* Math.max(0, Math.min(3, t))
Clamp(t) == Max(TierMin, Min(TierMax, t))

PanelSetTerrain(v) ==
    /\ PanelShown
    /\ UpdateHex("panelTerrain", "terrain", v)

PanelTierWheel(deltaY) ==
    /\ PanelShown
    /\ UpdateHex("panelWheel", "tier", Clamp(selected.tier + WheelDelta(deltaY)))

PanelTierMinus ==
    /\ PanelShown
    /\ UpdateHex("panelMinus", "tier", Max(TierMin, selected.tier - 1))

PanelTierPlus ==
    /\ PanelShown
    /\ UpdateHex("panelPlus", "tier", Min(TierMax, selected.tier + 1))

PanelSetAsset(v) ==
    /\ PanelShown
    /\ UpdateHex("panelAsset", "asset", v)

\* handleWheel on the canvas.
HandleWheel(deltaY) ==
    /\ data # Null
    /\ IF (selected # Null \/ selectedMultiple # {}) /\ editMode = "terrain"
       THEN UpdateHex("wheel", "tier",
                Clamp((IF selected # Null THEN selected.tier ELSE 0) + WheelDelta(deltaY)))
       ELSE /\ ev' = Event("wheel", 0, FALSE, "", 0)
            /\ UNCHANGED <<data, selected, selectedMultiple, editMode, spawnPoints,
                           worldTree, brushEnabled, brushTerrain, brushTier,
                           isBrushPainting, paintedInStroke, isPanning,
                           isDragSelecting, offset, start, defaultLoad, stroke>>
    /\ FileKept

\* ------------------------------------------------------------------------
\* Sidebar: the remove buttons of the marker panels
\* ------------------------------------------------------------------------
\* The remove button of the i-th entry of the spawn list (spawn mode panel).
RemoveSpawn(i) ==
    /\ editMode = "spawn"
    /\ i \in DOMAIN spawnPoints
    /\ spawnPoints' = ToggleSpawnPoint(spawnPoints, spawnPoints[i].q, spawnPoints[i].r)
    /\ ev' = Event("removeSpawn", spawnPoints[i].q + 1, FALSE, "spawn",
                    Toggled("spawn", spawnPoints[i].q + 1, spawnPoints))
    /\ stroke' = [stroke EXCEPT !.dragOnly = FALSE, !.base = {}]
    /\ UNCHANGED <<data, selected, selectedMultiple, editMode, worldTree,
                   brushEnabled, brushTerrain, brushTier, isBrushPainting,
                   paintedInStroke, isPanning, isDragSelecting, offset, start,
                   defaultLoad>>
    /\ FileKept

\* The remove button of the goal panel: setWorldTree(null).
RemoveGoal ==
    /\ editMode = "goal"
    /\ worldTree # Null
    /\ worldTree' = Null
    /\ ev' = Event("removeGoal", 0, FALSE, "", worldTree)
    /\ stroke' = [stroke EXCEPT !.dragOnly = FALSE, !.base = {}]
    /\ UNCHANGED <<data, selected, selectedMultiple, editMode, spawnPoints,
                   brushEnabled, brushTerrain, brushTier, isBrushPainting,
                   paintedInStroke, isPanning, isDragSelecting, offset, start,
                   defaultLoad>>
    /\ FileKept

\* ------------------------------------------------------------------------
\* File IO: import
\* ------------------------------------------------------------------------
\* What both import paths do with the text of the chosen file: parse it and
\* call the five setters.  JSON.parse throws on a malformed text; on the text
\* "null" setData(null) has been called when reading parsed.spawnPoints
\* throws.  notice is what the path's catch block shows the user.  The event
\* records the text and the markers the import met.
Imported(text) == [text |-> text, spawnPoints |-> spawnPoints, worldTree |-> worldTree]

ImportText(type, text, notice) ==
    /\ EditorOnly
    /\ stroke' = NoStroke
    /\ UNCHANGED <<selectedMultiple, brushEnabled, brushTerrain, brushTier,
                   isBrushPainting, paintedInStroke, isPanning, isDragSelecting,
                   offset, start, defaultLoad>>
    /\ IF JsonParse(text).throws
       THEN /\ ev' = Event(type, 0, FALSE, notice, Imported(text))
            /\ UNCHANGED <<data, spawnPoints, worldTree, selected, editMode, pristine>>
       ELSE IF JsonParse(text).value = Null
       THEN /\ data' = Null
            /\ ev' = Event(type, 0, FALSE, notice, Imported(text))
            /\ pristine' = Null
            /\ UNCHANGED <<spawnPoints, worldTree, selected, editMode>>
       ELSE /\ data' = JsonParse(text).value
            /\ spawnPoints' = SpawnPointsOf(JsonParse(text).value)
            /\ worldTree' = WorldTreeOf(JsonParse(text).value)
            /\ selected' = Null
            /\ editMode' = "terrain"
            /\ ev' = Event(type, 0, FALSE, "", Imported(text))
            /\ pristine' = JsonParse(text).value

\* handleImportClick where the file picker exists and the user picks file f:
\* the handle and the name are stored, then the text is read and parsed; the
\* catch block shows nothing and falls through to opening the file input.
HandleImportClick(f, text) ==
    /\ lastFileHandle' = [name |-> f]
    /\ lastFileName' = f
    /\ ImportText("importPicker", text, "")

\* handleImportClick where the user dismisses the picker (AbortError).
HandleImportAbort ==
    /\ EditorOnly
    /\ ev' = Event("importAbort", 0, FALSE, "", 0)
    /\ UNCHANGED <<data, selected, selectedMultiple, editMode, spawnPoints, worldTree,
                   brushEnabled, brushTerrain, brushTier, isBrushPainting,
                   paintedInStroke, isPanning, isDragSelecting, offset, start,
                   defaultLoad, lastFileHandle, lastFileName, stroke, pristine>>

\* handleImport: the file input yields file f (opened by handleImportClick
\* where the picker is missing or after its catch block) and the reader has
\* loaded its text.
HandleImport(f, text) ==
    /\ lastFileName' = f
    /\ lastFileHandle' = Null
    /\ ImportText("importInput", text, "alert")

\* ------------------------------------------------------------------------
\* File IO: save and export
\* ------------------------------------------------------------------------
GetExportData_DocOnly ==
    [k \in DOMAIN data |-> Field(data[k])]

GetExportData_MarkersOnly ==
    [k \in OptionalKeys |->
        IF k = "spawnPoints"
        THEN IF Len(spawnPoints) > 0 THEN Field(spawnPoints) ELSE Undefined
        ELSE IF worldTree # Null THEN Field(worldTree) ELSE Undefined]

\* getExportData() with a document: {...data, spawnPoints, worldTree}.
GetExportData ==
    [k \in DOMAIN data \cup OptionalKeys |->
        IF k = "spawnPoints"
        THEN IF Len(spawnPoints) > 0 THEN Field(spawnPoints) ELSE Undefined
        ELSE IF k = "worldTree"
        THEN IF worldTree # Null THEN Field(worldTree) ELSE Undefined
        ELSE Field(data[k])]

\* handleExport: the save picker yields file g, which is written and
\* remembered; or the user dismisses the picker ("abort"); or the picker is
\* missing or fails and the text is downloaded under the remembered name.
ExportTo(choice) ==
    /\ EditorOnly
    /\ UNCHANGED <<data, selected, selectedMultiple, editMode, spawnPoints, worldTree,
                   brushEnabled, brushTerrain, brushTier, isBrushPainting,
                   paintedInStroke, isPanning, isDragSelecting, offset, start,
                   defaultLoad, stroke, pristine>>
    /\ IF choice = "abort"
       THEN /\ ev' = Event("exportAbort", 0, FALSE, "", 0)
            /\ UNCHANGED <<lastFileHandle, lastFileName>>
       ELSE IF choice = "download"
       THEN /\ ev' = Event("download", 0, FALSE, lastFileName,
                           JsonStringify(GetExportData))
            /\ UNCHANGED <<lastFileHandle, lastFileName>>
       ELSE /\ ev' = Event("export", 0, FALSE, choice, JsonStringify(GetExportData))
            /\ lastFileHandle' = [name |-> choice]
            /\ lastFileName' = choice

HandleExport(choice) ==
    /\ data # Null
    /\ ExportTo(choice)

\* handleSave: the remembered handle is written when there is one and the
\* write succeeds (ok), else handleExport runs.
HandleSave(ok, choice) ==
    /\ data # Null
    /\ IF lastFileHandle # Null /\ ok
       THEN /\ ev' = Event("save", 0, FALSE, lastFileHandle.name,
                           JsonStringify(GetExportData))
            /\ EditorOnly
            /\ UNCHANGED <<data, selected, selectedMultiple, editMode, spawnPoints,
                           worldTree, brushEnabled, brushTerrain, brushTier,
                           isBrushPainting, paintedInStroke, isPanning,
                           isDragSelecting, offset, start, defaultLoad,
                           lastFileHandle, lastFileName, stroke, pristine>>
       ELSE ExportTo(choice)

\* ------------------------------------------------------------------------
\* Events, with their inputs drawn from the given sets
\* ------------------------------------------------------------------------
Buttons == {0, 2}
DeltaYs == {0 - 1, 1}
Origin == {[x |-> 0, y |-> 0]}
DocTiers == TierMin .. MaxDocTier

Load(docs) == \E d \in docs : LoadDefault(d)

Pointer(ctrls, pts) ==
    \/ \E b \in Buttons, c \in ctrls, pt \in pts, h \in 0 .. NumTiles :
          OnMouseDown(b, c, pt, h)
    \/ \E c \in ctrls, pt \in pts, h \in 0 .. NumTiles : OnMouseMove(c, pt, h)
    \/ \E t \in {"up", "leave"} : OnMouseUp(t)

Mode == \E m \in EditModes : SetEditMode(m)

Brush(tiers) ==
    \/ ToggleBrush
    \/ \E t \in TERRAIN_COLOURS : SetBrushTerrain(t)
    \/ \E t \in tiers : SetBrushTier(t)

ClickOn(tiles, ctrls) == \E h \in tiles, c \in ctrls : HandleHexClick(h, c)

Click == ClickOn(TileIds, BOOLEAN)

TierEdit ==
    \/ \E d \in DeltaYs : PanelTierWheel(d)
    \/ PanelTierMinus
    \/ PanelTierPlus
    \/ \E d \in DeltaYs : HandleWheel(d)

FieldEdit ==
    \/ \E v \in TERRAIN_COLOURS : PanelSetTerrain(v)
    \/ \E v \in Assets : PanelSetAsset(v)

ExportChoices(files) == files \cup {"abort", "download"}
Texts(docs) == {Malformed, Null} \cup docs

Import(files, texts) ==
    \/ \E f \in files, t \in texts : HandleImportClick(f, t)
    \/ HandleImportAbort
    \/ \E f \in files, t \in texts : HandleImport(f, t)

Markers ==
    \/ \E i \in 1 .. MaxSpawn + NumTiles : RemoveSpawn(i)
    \/ RemoveGoal

Export(files) ==
    \/ \E c \in ExportChoices(files) : HandleExport(c)
    \/ \E ok \in BOOLEAN, c \in ExportChoices(files) : HandleSave(ok, c)

\* ------------------------------------------------------------------------
\* Specifications
\* ------------------------------------------------------------------------
\* Brush strokes: pointer events without pan distance, the brush controls and
\* the edit mode.
NextBrush ==
    \/ Load(DocSet(DocTiers))
    \/ Pointer({FALSE}, Origin)
    \/ Mode
    \/ Brush(DocTiers)

SpecBrush == Init /\ [][NextBrush]_vars

\* Stroke modes: pointer events with modifier keys and pan distance, on
\* documents of one tier.
NextStroke ==
    \/ Load(DocSet({TierMin}))
    \/ Pointer(BOOLEAN, PointerPos)
    \/ Mode
    \/ ToggleBrush

SpecStroke == Init /\ [][NextStroke]_vars

\* Selection: clicks, drag-select strokes and field edits.
NextSelect ==
    \/ Load(DocSet({TierMin}))
    \/ Pointer(BOOLEAN, Origin)
    \/ Mode
    \/ Click
    \/ FieldEdit

SpecSelect == Init /\ [][NextSelect]_vars

\* Tier edits on documents whose tiers may be out of range.
NextTier ==
    \/ Load(DocSet(ImportTiers))
    \/ Click
    \/ TierEdit

SpecTier == Init /\ [][NextTier]_vars

\* Field edits under single and multi selection.
NextEdit ==
    \/ Load(DocSet({TierMin}))
    \/ Mode
    \/ Click
    \/ FieldEdit
    \/ TierEdit

SpecEdit == Init /\ [][NextEdit]_vars

\* Imports: both import paths on malformed texts, the text "null" and
\* documents with and without the marker keys (at the second tile), between
\* mode switches and clicks on the first tile.
NextImport ==
    \/ Import(Files, Texts(ImportDocs({Plain(te) : te \in TERRAIN_COLOURS},
                                      {<<[q |-> 1, r |-> 0]>>},
                                      {[q |-> 1, r |-> 0]})))
    \/ Mode
    \/ ClickOn({1}, BOOLEAN)

SpecImport == Init /\ [][NextImport]_vars

\* Document replacement under a selection: imports (the text "null", which
\* leaves a focus without a document, included), clicks and field edits in
\* terrain mode.
NextReplace ==
    \/ Import({"a.json"}, Texts(ImportDocs({Plain(te) : te \in TERRAIN_COLOURS},
                                           {<< >>}, {Null})))
    \/ Click
    \/ FieldEdit
    \/ TierEdit

SpecReplace == Init /\ [][NextReplace]_vars

\* Markers and export: imports of documents with every spawn list up to
\* MaxSpawn entries, marker toggles, save and export.
NextMarker ==
    \/ Import({"a.json"}, Texts(ImportDocs({Plain("grass")}, SpawnLists,
                                           {Null, [q |-> 0, r |-> 0]})))
    \/ Mode
    \/ ClickOn(TileIds, {FALSE})
    \/ Markers
    \/ Export({"b.json"})

SpecMarker == Init /\ [][NextMarker]_vars

\* Every editing operation on one document: brush strokes over all tiles,
\* clicks on the first tile in the three edit modes, field and wheel edits,
\* marker removals.
NextKeys ==
    \/ Load({MapData(Plain("grass"))})
    \/ Pointer({FALSE}, Origin)
    \/ Mode
    \/ ToggleBrush
    \/ ClickOn({1}, {FALSE})
    \/ \E v \in {"water"} : PanelSetTerrain(v)
    \/ \E v \in {"tree"} : PanelSetAsset(v)
    \/ \E d \in DeltaYs : HandleWheel(d)
    \/ Markers

SpecKeys == Init /\ [][NextKeys]_vars

\* Tier edits of every kind on documents whose tiers are in range: brush
\* strokes with every brush tier, canvas and panel wheel, the two buttons,
\* under single and multi selection.
NextRange ==
    \/ Load({MapData(f) : f \in [TileIds -> [terrain : {"grass"},
                                             tier : {TierMin, TierMax}]]})
    \/ Pointer({FALSE}, Origin)
    \/ ToggleBrush
    \/ \E t \in BrushTiers : SetBrushTier(t)
    \/ Click
    \/ TierEdit

SpecRange == Init /\ [][NextRange]_vars

\* Canvas wheel edits under the selections that clicks and modifier-clicks
\* build and that an import leaves (a multi-set without a focus tile).
NextWheel ==
    \/ Import({"a.json"}, {MapData([i \in TileIds |-> [terrain |-> "grass", tier |-> t]]) :
                              t \in {TierMin, TierMax}})
    \/ Mode
    \/ Click
    \/ \E d \in DeltaYs : HandleWheel(d)

SpecWheel == Init /\ [][NextWheel]_vars



\* ------------------------------------------------------------------------
\* Geometry: pixel centers and the hit tester
\* ------------------------------------------------------------------------
\* Lengths are counted in units of ten pixels, and along the axis on which
\* the code multiplies by SQRT3 (x for pointy, y for flat) in units of
\* SQRT3 times ten pixels, so that every center is a pair of integers.
GeoSpan == 1
MaxHexSize == 2
MaxPoint == 20

Orientations == {"pointy", "flat"}
Variants == {"part_000", "App.jsx"}

\* a % n of JavaScript: the remainder has the sign of a.
JsRem(a, n) == IF a >= 0 THEN a % n ELSE 0 - ((0 - a) % n)

\* axialToPixel of the TypeScript component.  size is ten times hexSize, so
\* the halves below are exact.
AxialToPixel(q, r, size, orientation, rect, stagger, mirror, maxR) ==
    LET rr == IF mirror THEN maxR - r ELSE r
    IN  IF orientation = "pointy"
        THEN LET baseX == IF rect THEN size * q ELSE size * q + (size * rr) \div 2
                 y == (size * 3 * rr) \div 2
                 x == IF stagger THEN baseX + (JsRem(r, 2) * size) \div 2 ELSE baseX
             IN  [x |-> x, y |-> y]
        ELSE LET baseY == IF rect THEN size * rr ELSE size * rr + (size * q) \div 2
                 x == (size * 3 * q) \div 2
                 y == IF stagger THEN baseY + (JsRem(q, 2) * size) \div 2 ELSE baseY
             IN  [x |-> x, y |-> y]

\* axialToPixel of the component in App.jsx.
AxialToPixelJsx(q, r, size, orientation, rect, stagger, mirror, maxR) ==
    LET rr == IF mirror THEN maxR - r ELSE r
    IN  IF orientation = "pointy"
        THEN LET baseX == IF rect THEN size * q ELSE size * q + (size * rr) \div 2
                 y == (size * 3 * rr) \div 2
                 x == IF stagger THEN baseX + (JsRem(rr, 2) * size) \div 2 ELSE baseX
             IN  [x |-> x, y |-> y]
        ELSE LET baseY == IF rect THEN size * rr ELSE size * rr + (size * q) \div 2
                 x == (size * 3 * q) \div 2
                 y == IF stagger THEN baseY + (JsRem(q, 2) * size) \div 2 ELSE baseY
             IN  [x |-> x, y |-> y]

\* The arguments of one call of axialToPixel in either component.
PlaceArgs ==
    [variant : Variants, q : (0 - GeoSpan) .. GeoSpan, r : (0 - GeoSpan) .. GeoSpan,
     size : {10 * k : k \in 1 .. MaxHexSize}, orientation : Orientations,
     rect : BOOLEAN, stagger : BOOLEAN, mirror : BOOLEAN,
     maxR : 0 .. GeoSpan]

\* The center the component a.variant computes for the arguments a.
Place(a) ==
    IF a.variant = "part_000"
    THEN AxialToPixel(a.q, a.r, a.size, a.orientation, a.rect, a.stagger,
                      a.mirror, a.maxR)
    ELSE AxialToPixelJsx(a.q, a.r, a.size, a.orientation, a.rect, a.stagger,
                         a.mirror, a.maxR)

\* One call of axialToPixel: the arguments were drawn, the result is stored.
ApplyAxialToPixel ==
    /\ probe # Null
    /\ probe.fn = "axialToPixel"
    /\ probe.out = Undefined
    /\ probe' = [probe EXCEPT !.out = Field(Place(probe.args))]
    /\ UNCHANGED <<data, selected, selectedMultiple, editMode, spawnPoints, worldTree,
                   brushEnabled, brushTerrain, brushTier, isBrushPainting,
                   paintedInStroke, isPanning, isDragSelecting, offset, start,
                   defaultLoad, lastFileHandle, lastFileName, ev, stroke, pristine,
                   stateFile, hook, loop, app>>

InitPlace ==
    /\ InitEditor
    /\ stateFile = Null
    /\ hook = Null
    /\ loop = Null
    /\ app = Null
    /\ probe \in {[fn |-> "axialToPixel", args |-> a, out |-> Undefined] :
                    a \in {b \in PlaceArgs : b.r <= b.maxR}}

NextPlace == ApplyAxialToPixel

SpecPlace == InitPlace /\ [][NextPlace]_vars


\* The layout toggles of the TypeScript component: state without a setter.
rect == TRUE
stagger == TRUE
mirror == TRUE

\* Documents whose tiles lie anywhere in a square of coordinates, in any
\* order.
GeoCoords == {[q |-> a, r |-> b] : a \in 0 .. GeoSpan, b \in 0 .. GeoSpan}

GeoTiles == {f \in [TileIds -> GeoCoords] :
                \A i \in TileIds : \A j \in TileIds : i # j => f[i] # f[j]}

GeoDoc(f, o, h) ==
    [hexSize |-> h, orientation |-> o,
     map |-> [i \in TileIds |->
                [id |-> i, q |-> f[i].q, r |-> f[i].r, terrain |-> "grass",
                 tier |-> TierMin, asset |-> ""]],
     spawnPoints |-> << >>, worldTree |-> Null]

GeoDocs == {GeoDoc(f, o, h) : f \in GeoTiles, o \in Orientations, h \in 1 .. MaxHexSize}

GeoPoints == {[x |-> a, y |-> b] : a \in 0 .. MaxPoint, b \in 0 .. MaxPoint}

\* sizePx, in units of ten pixels
SizePx(d) == (IF d = Null THEN 1 ELSE d.hexSize) * 10

RECURSIVE MaxOver(_, _)
MaxOver(list, i) ==
    IF i = Len(list) THEN list[i].r ELSE Max(list[i].r, MaxOver(list, i + 1))

\* maxR
MaxR(d) == IF d = Null THEN 0 ELSE MaxOver(d.map, 1)

\* The center of tile hex of document d as the component draws and tests it.
Center(d, hex) ==
    AxialToPixel(hex.q, hex.r, SizePx(d), d.orientation, rect, stagger, mirror, MaxR(d))

\* (svgX - x) ** 2 + (svgY - y) ** 2, the square of dist, in the units of
\* the centers: the axis that carries the factor SQRT3 counts three times.
DistSq(d, svgX, svgY, c) ==
    IF d.orientation = "pointy"
    THEN 3 * (svgX - c.x) * (svgX - c.x) + (svgY - c.y) * (svgY - c.y)
    ELSE (svgX - c.x) * (svgX - c.x) + 3 * (svgY - c.y) * (svgY - c.y)

\* The square of threshold = sizePx * 0.9.
ThresholdSq(d) == ((SizePx(d) * 9) \div 10) * ((SizePx(d) * 9) \div 10)

Closer_TiesToLast(dist, threshold, closest, closestDist) ==
    dist < threshold /\ (closest = 0 \/ dist <= closestDist)

\* dist < threshold && dist < closestDist, on the squares; closestDist is
\* Infinity exactly while closest is null (0).
Closer(dist, threshold, closest, closestDist) ==
    dist < threshold /\ (closest = 0 \/ dist < closestDist)

\* The loop of findHexAtPoint from tile i on.
RECURSIVE FindFrom(_, _, _, _, _, _)
FindFrom(d, svgX, svgY, i, closest, closestDist) ==
    IF i > Len(d.map) THEN closest
    ELSE LET dist == DistSq(d, svgX, svgY, Center(d, d.map[i]))
         IN  IF Closer(dist, ThresholdSq(d), closest, closestDist)
             THEN FindFrom(d, svgX, svgY, i + 1, i, dist)
             ELSE FindFrom(d, svgX, svgY, i + 1, closest, closestDist)

\* findHexAtPoint: the index of the tile found, 0 for null.
FindHexAtPoint(svgX, svgY) ==
    IF data = Null THEN 0 ELSE FindFrom(data, svgX, svgY, 1, 0, 0)

\* One call of findHexAtPoint on the current document: the point was drawn,
\* the document tested and the result are stored.
ApplyFindHexAtPoint ==
    /\ probe # Null
    /\ probe.fn = "findHexAtPoint"
    /\ probe.out = Undefined
    /\ probe' = [probe EXCEPT !.doc = data,
                              !.out = Field(FindHexAtPoint(probe.pt.x, probe.pt.y))]
    /\ UNCHANGED <<data, selected, selectedMultiple, editMode, spawnPoints, worldTree,
                   brushEnabled, brushTerrain, brushTier, isBrushPainting,
                   paintedInStroke, isPanning, isDragSelecting, offset, start,
                   defaultLoad, lastFileHandle, lastFileName, ev, stroke, pristine,
                   stateFile, hook, loop, app>>

InitHit ==
    /\ InitEditor
    /\ stateFile = Null
    /\ hook = Null
    /\ loop = Null
    /\ app = Null
    /\ probe \in {[fn |-> "findHexAtPoint", pt |-> p, doc |-> Null, out |-> Undefined] :
                    p \in GeoPoints}

NextHit ==
    \/ \E d \in GeoDocs : LoadDefault(d)
    \/ ApplyFindHexAtPoint

SpecHit == InitHit /\ [][NextHit]_vars


\* ------------------------------------------------------------------------
\* Pointer conversion against the render transform
\* ------------------------------------------------------------------------
\* The group transform mixes the two units of the centers (bounds.w is a
\* center plus 2 * sizePx), so the positions below are exact numbers
\* one + s3 * SQRT3, counted in 1/Sub of ten pixels so that the zoom
\* factors 0.8 and 1.25 and the halves of the bounds stay whole.
MaxPan == 1
Sub == 40
PanStep == 15

Num(a, b) == [one |-> a, s3 |-> b]
NumAdd(m, n) == Num(m.one + n.one, m.s3 + n.s3)
NumSub(m, n) == Num(m.one - n.one, m.s3 - n.s3)
NumMul(k, n) == Num(k * n.one, k * n.s3)
NumDiv(n, k) == Num(n.one \div k, n.s3 \div k)
NumSq(n) == Num(n.one * n.one + 3 * n.s3 * n.s3, 2 * n.one * n.s3)
Abs(a) == IF a < 0 THEN 0 - a ELSE a

\* q * q as two digits of 2^24, for 0 <= q < 2^24, within 32-bit integers.
Wide(q) ==
    LET qh == q \div 4096
        ql == q % 4096
        mid == 2 * qh * ql
        low == (mid % 4096) * 4096 + ql * ql
    IN  [hi |-> qh * qh + mid \div 4096 + low \div 16777216, lo |-> low % 16777216]

Triple(w) == [hi |-> 3 * w.hi + (3 * w.lo) \div 16777216, lo |-> (3 * w.lo) % 16777216]

WideLess(u, v) == u.hi < v.hi \/ (u.hi = v.hi /\ u.lo < v.lo)

\* n < 0 for the exact number n: the sign of one + s3 * SQRT3.
IsNeg(n) ==
    IF n.s3 = 0 THEN n.one < 0
    ELSE IF n.s3 > 0
         THEN n.one < 0 /\ WideLess(Triple(Wide(n.s3)), Wide(Abs(n.one)))
         ELSE n.one < 0 \/ WideLess(Wide(n.one), Triple(Wide(Abs(n.s3))))

\* A center of the component as an exact point, in ten pixels.
ExactPoint(d, c) ==
    IF d.orientation = "pointy"
    THEN [x |-> Num(0, c.x), y |-> Num(c.y, 0)]
    ELSE [x |-> Num(c.x, 0), y |-> Num(0, c.y)]

RECURSIVE MaxCenter(_, _, _)
MaxCenter(d, i, axis) ==
    LET c == Center(d, d.map[i])
        v == IF axis = "x" THEN c.x ELSE c.y
    IN  IF i = Len(d.map) THEN v ELSE Max(v, MaxCenter(d, i + 1, axis))

\* bounds: the largest center coordinate plus sizePx * 2 on either axis.
Bounds(d) ==
    LET m == ExactPoint(d, [x |-> MaxCenter(d, 1, "x"), y |-> MaxCenter(d, 1, "y")])
    IN  [w |-> NumAdd(m.x, Num(2 * SizePx(d), 0)),
         h |-> NumAdd(m.y, Num(2 * SizePx(d), 0))]

\* The zoom factors, in percent: 1, and one press of - or + from 1.
Scales == {80, 100, 125}

\* Pan offsets, in pixels like the pointer deltas they are summed from.
Pans == {[x |-> PanStep * a, y |-> PanStep * b] :
            a \in (0 - MaxPan) .. MaxPan, b \in (0 - MaxPan) .. MaxPan}

\* translate(pan + bounds / 2 * (1 - scale)) scale(scale) applied to the
\* point p of the group; the result is in viewBox units, times Sub.
RenderTransform(d, pan, scale, p) ==
    LET half == (Sub * (100 - scale)) \div 200
        zoom == (Sub * scale) \div 100
    IN  [x |-> NumAdd(NumAdd(Num(Sub * pan.x, 0), NumMul(half, Bounds(d).w)),
                      NumMul(zoom, p.x)),
         y |-> NumAdd(NumAdd(Num(Sub * pan.y, 0), NumMul(half, Bounds(d).h)),
                      NumMul(zoom, p.y))]

\* The bounding rectangles of the svg element: its corner, and the pixels it
\* shows per viewBox unit (the element is laid out with the proportions of
\* the viewBox, width = density * viewBox.width and likewise the height).
SvgRects == {[left |-> l, top |-> t, density |-> k] :
                l \in {0, 2}, t \in {0, 3}, k \in {1, 2}}

\* Where the browser shows the viewBox point v: the client position.
ClientOf(svgRect, v) ==
    [clientX |-> NumAdd(Num(Sub * svgRect.left, 0), NumMul(svgRect.density, v.x)),
     clientY |-> NumAdd(Num(Sub * svgRect.top, 0), NumMul(svgRect.density, v.y))]

\* mouseToSvg: scaleX = viewBox.width / svgRect.width = 1 / density.
MouseToSvg(e, svgRect) ==
    [x |-> NumDiv(NumSub(e.clientX, Num(Sub * svgRect.left, 0)), svgRect.density),
     y |-> NumDiv(NumSub(e.clientY, Num(Sub * svgRect.top, 0)), svgRect.density)]

\* The viewBox point v lies inside the viewBox, where the svg shows it.
InViewBox(d, v) ==
    /\ ~IsNeg(v.x)
    /\ ~IsNeg(v.y)
    /\ ~IsNeg(NumSub(NumMul(Sub, Bounds(d).w), v.x))
    /\ ~IsNeg(NumSub(NumMul(Sub, Bounds(d).h), v.y))

\* (svgX - x) ** 2 + (svgY - y) ** 2 for the exact point v.
DistSqAt(d, v, c) ==
    LET e == ExactPoint(d, c)
    IN  NumAdd(NumSq(NumSub(v.x, NumMul(Sub, e.x))), NumSq(NumSub(v.y, NumMul(Sub, e.y))))

\* dist < threshold && dist < closestDist on exact squares.
CloserAt(dist, threshold, closest, closestDist) ==
    /\ IsNeg(NumSub(dist, threshold))
    /\ (closest = 0 \/ IsNeg(NumSub(dist, closestDist)))

\* The loop of findHexAtPoint at the exact point v.
RECURSIVE FindFromAt(_, _, _, _, _)
FindFromAt(d, v, i, closest, closestDist) ==
    IF i > Len(d.map) THEN closest
    ELSE LET dist == DistSqAt(d, v, Center(d, d.map[i]))
         IN  IF CloserAt(dist, Num(Sub * Sub * ThresholdSq(d), 0), closest, closestDist)
             THEN FindFromAt(d, v, i + 1, i, dist)
             ELSE FindFromAt(d, v, i + 1, closest, closestDist)

\* findHexAtPoint at the exact point v: the index of the tile found, 0 for
\* null.
FindHexAtSvgPoint(v) ==
    IF data = Null THEN 0 ELSE FindFromAt(data, v, 1, 0, Num(0, 0))

\* One pointer sample of a stroke, taken with the pointer over the drawn
\* center of tile probe.tile: the browser shows that center at ClientOf, the
\* handler converts the event with mouseToSvg and asks findHexAtPoint.
ApplyPointerSample ==
    /\ probe # Null
    /\ probe.fn = "pointerSample"
    /\ probe.out = Undefined
    /\ data # Null
    /\ LET drawn == RenderTransform(data, probe.pan, probe.scale,
                                    ExactPoint(data, Center(data, data.map[probe.tile])))
           e == ClientOf(probe.svgRect, drawn)
           pt == MouseToSvg(e, probe.svgRect)
       IN  probe' = [probe EXCEPT !.doc = data,
                                  !.shown = InViewBox(data, drawn),
                                  !.out = Field(FindHexAtSvgPoint(pt))]
    /\ UNCHANGED <<data, selected, selectedMultiple, editMode, spawnPoints, worldTree,
                   brushEnabled, brushTerrain, brushTier, isBrushPainting,
                   paintedInStroke, isPanning, isDragSelecting, offset, start,
                   defaultLoad, lastFileHandle, lastFileName, ev, stroke, pristine,
                   stateFile, hook, loop, app>>

InitPointer ==
    /\ InitEditor
    /\ stateFile = Null
    /\ hook = Null
    /\ loop = Null
    /\ app = Null
    /\ probe \in {[fn |-> "pointerSample", tile |-> i, pan |-> p, scale |-> s,
                   svgRect |-> b, doc |-> Null, shown |-> FALSE, out |-> Undefined] :
                    i \in TileIds, p \in Pans, s \in Scales, b \in SvgRects}

NextPointer ==
    \/ \E d \in {g \in GeoDocs : g.hexSize = 1} : LoadDefault(d)
    \/ ApplyPointerSample

SpecPointer == InitPointer /\ [][NextPointer]_vars


\* ------------------------------------------------------------------------
\* The paint-mode editor of App.jsx
\* ------------------------------------------------------------------------
\* The state of that component is the record app: data, selected, paintMode
\* and paintBrush.  Its tiles carry height and texture instead of tier.

\* DEFAULT_DATA: the coordinates, terrain and height of its seven tiles.
DefaultTiles ==
    << <<0, 0, "grass", 1>>, <<1, 0, "water", 0>>, <<0 - 1, 0, "sand", 1>>,
       <<0, 1, "forest", 2>>, <<1, 0 - 1, "mountain", 3>>, <<0 - 1, 1, "swamp", 0>>,
       <<0, 0 - 1, "road", 1>> >>

\* The first NumTiles tiles of DEFAULT_DATA.
DEFAULT_DATA ==
    [hexSize |-> 8, orientation |-> "pointy",    \* hexSize 0.8, in tenths
     map |-> [i \in TileIds |->
                [id |-> i, q |-> DefaultTiles[i][1], r |-> DefaultTiles[i][2],
                 asset |-> "", terrain |-> DefaultTiles[i][3],
                 height |-> DefaultTiles[i][4], texture |-> ""]]]

\* useState of the component.
AppInit ==
    [data |-> DEFAULT_DATA, selected |-> Null, paintMode |-> FALSE,
     paintBrush |-> [terrain |-> "grass", height |-> 1, texture |-> "", asset |-> "",
                     applyTerrain |-> TRUE, applyHeight |-> TRUE,
                     applyTexture |-> FALSE, applyAsset |-> FALSE]]

\* The component of App.jsx touches nothing of the other component, the
\* stop hook or the function record.
AppOnly ==
    UNCHANGED <<data, selected, selectedMultiple, editMode, spawnPoints, worldTree,
                brushEnabled, brushTerrain, brushTier, isBrushPainting,
                paintedInStroke, isPanning, isDragSelecting, offset, start,
                defaultLoad, lastFileHandle, lastFileName, stroke, pristine,
                stateFile, hook, loop, probe>>

UpdatedHex_AlwaysTexture(paintBrush, targetHex) ==
    LET a == IF paintBrush.applyTerrain
             THEN [targetHex EXCEPT !.terrain = paintBrush.terrain] ELSE targetHex
        b == IF paintBrush.applyHeight
             THEN [a EXCEPT !.height = paintBrush.height] ELSE a
        c == [b EXCEPT !.texture = paintBrush.texture]
    IN  IF paintBrush.applyAsset THEN [c EXCEPT !.asset = paintBrush.asset] ELSE c

\* updatedHex of applyPaintBrush: a copy of the target with the flagged
\* fields overwritten one after the other.
UpdatedHex(paintBrush, targetHex) ==
    LET a == IF paintBrush.applyTerrain
             THEN [targetHex EXCEPT !.terrain = paintBrush.terrain] ELSE targetHex
        b == IF paintBrush.applyHeight
             THEN [a EXCEPT !.height = paintBrush.height] ELSE a
        c == IF paintBrush.applyTexture
             THEN [b EXCEPT !.texture = paintBrush.texture] ELSE b
    IN  IF paintBrush.applyAsset THEN [c EXCEPT !.asset = paintBrush.asset] ELSE c

\* applyPaintBrush: the document after setData, the tiles with the id of the
\* target replaced by updatedHex.
ApplyPaintBrush(a, targetHex) ==
    IF a.data = Null THEN a.data
    ELSE [a.data EXCEPT !.map =
            [j \in DOMAIN a.data.map |->
                IF a.data.map[j].id = targetHex.id
                THEN UpdatedHex(a.paintBrush, targetHex)
                ELSE a.data.map[j]]]

\* handleHexClick of App.jsx on the tile drawn for index i.
AppHexClick(i) ==
    /\ app # Null
    /\ app.data # Null
    /\ LET hex == app.data.map[i]
       IN  app' = IF app.paintMode
                  THEN [app EXCEPT !.data = ApplyPaintBrush(app, hex)]
                  ELSE [app EXCEPT !.selected = hex]
    /\ ev' = Event("appClick", i, FALSE, "", 0)
    /\ AppOnly

\* The Select and Paint buttons.
AppSetPaintMode(b) ==
    /\ app # Null
    /\ app' = [app EXCEPT !.paintMode = b]
    /\ ev' = Event("appMode", 0, FALSE, "", 0)
    /\ AppOnly

\* updatePaintBrush(k, v), from the controls of the brush panel, which is
\* shown in paint mode.
UpdatePaintBrush(k, v) ==
    /\ app # Null
    /\ app.paintMode
    /\ app' = [app EXCEPT !.paintBrush = [app.paintBrush EXCEPT ![k] = v]]
    /\ ev' = Event("appBrush", 0, FALSE, "", 0)
    /\ AppOnly

InitPaint ==
    /\ InitEditor
    /\ stateFile = Null
    /\ hook = Null
    /\ loop = Null
    /\ probe = Null
    /\ app = AppInit

NextPaint ==
    \/ \E i \in TileIds : AppHexClick(i)
    \/ \E b \in BOOLEAN : AppSetPaintMode(b)
    \/ \E k \in {"applyTerrain", "applyHeight", "applyTexture", "applyAsset"} :
         \E v \in BOOLEAN : UpdatePaintBrush(k, v)
    \/ UpdatePaintBrush("terrain", "sand")
    \/ UpdatePaintBrush("texture", "rock")
    \/ UpdatePaintBrush("asset", "tree")

SpecPaint == InitPaint /\ [][NextPaint]_vars


\* ------------------------------------------------------------------------
\* The Ralph loop: state file, stop hook, cancel command
\* ------------------------------------------------------------------------
\* The state file .ralph-state.json is absent (Null) or holds active,
\* iteration and maxIterations; the completion promise it names is looked up
\* in the transcript, and the outcome of that lookup is an input of the hook.
IterBound == 3

StateFiles ==
    [active : BOOLEAN, iteration : 0 .. IterBound, maxIterations : 0 .. IterBound]

\* What the hook finds at transcript_path: no path or no file there, a
\* transcript without the completion promise, one that holds it.
Transcripts == {"none", "plain", "promise"}

\* What the hook and the commands leave alone: the editor and the record of
\* the last function application.
HookOnly ==
    UNCHANGED <<data, selected, selectedMultiple, editMode, spawnPoints, worldTree,
                brushEnabled, brushTerrain, brushTier, isBrushPainting,
                paintedInStroke, isPanning, isDragSelecting, offset, start,
                defaultLoad, lastFileHandle, lastFileName, ev, stroke, pristine,
                probe, app>>

LoopActive_Always(file) == TRUE

\* [ "$ACTIVE" != "true" ] does not hold
LoopActive(file) == file.active

\* grep -q "$COMPLETION_PROMISE" "$TRANSCRIPT_PATH" on an existing transcript
PromiseFound(transcript) == transcript = "promise"

MaxReached_OneLate(file) == file.iteration > file.maxIterations

\* [ "$ITERATION" -ge "$MAX_ITERATIONS" ]
MaxReached(file) == file.iteration >= file.maxIterations

\* The exit code of stop-ralph.sh: 0 allows the stop, 2 blocks it.
HookExit(stopHookActive, transcript) ==
    IF stopHookActive THEN 0
    ELSE IF stateFile = Null THEN 0
    ELSE IF ~LoopActive(stateFile) THEN 0
    ELSE IF PromiseFound(transcript) THEN 0
    ELSE IF MaxReached(stateFile) THEN 0
    ELSE 2

\* The state file stop-ralph.sh leaves.
HookFile(stopHookActive, transcript) ==
    IF stopHookActive THEN stateFile
    ELSE IF stateFile = Null THEN stateFile
    ELSE IF ~LoopActive(stateFile) THEN stateFile
    ELSE IF PromiseFound(transcript) THEN [stateFile EXCEPT !.active = FALSE]
    ELSE IF MaxReached(stateFile) THEN [stateFile EXCEPT !.active = FALSE]
    ELSE [stateFile EXCEPT !.iteration = @ + 1]

\* One run of stop-ralph.sh on a stop attempt.  hook records the run; loop
\* counts the blocks since the state file was created (history).
StopHook(stopHookActive, transcript) ==
    /\ stateFile' = HookFile(stopHookActive, transcript)
    /\ hook' = [stopHookActive |-> stopHookActive, transcript |-> transcript,
                exit |-> HookExit(stopHookActive, transcript),
                decision |-> IF HookExit(stopHookActive, transcript) = 2
                             THEN "block" ELSE "",
                before |-> stateFile,
                after |-> HookFile(stopHookActive, transcript)]
    /\ loop' = [loop EXCEPT
                  !.last = "hook",
                  !.blocked = IF HookExit(stopHookActive, transcript) = 2
                              THEN Min(@ + 1, IterBound + 1) ELSE @]
    /\ HookOnly

\* /ralph-loop with --max-iterations n on its first iteration: the state
\* file is created.
StartLoop(n) ==
    /\ IF stateFile = Null THEN TRUE ELSE ~stateFile.active
    /\ stateFile' = [active |-> TRUE, iteration |-> 1, maxIterations |-> n]
    /\ loop' = [start |-> [active |-> TRUE, iteration |-> 1, maxIterations |-> n],
                blocked |-> 0, cancelled |-> FALSE, last |-> "start"]
    /\ UNCHANGED hook
    /\ HookOnly

\* /cancel-ralph: active is set to false where the state file exists.
CancelRalph ==
    /\ stateFile' = IF stateFile = Null THEN stateFile
                    ELSE [stateFile EXCEPT !.active = FALSE]
    /\ loop' = [loop EXCEPT !.cancelled = stateFile # Null, !.last = "cancel"]
    /\ UNCHANGED hook
    /\ HookOnly

\* Any state file, or none, before the first stop attempt.
InitRalph ==
    /\ InitEditor
    /\ probe = Null
    /\ app = Null
    /\ hook = Null
    /\ stateFile \in StateFiles \cup {Null}
    /\ loop = [start |-> stateFile, blocked |-> 0, cancelled |-> FALSE, last |-> "init"]

Stops == \E s \in BOOLEAN, t \in Transcripts : StopHook(s, t)

\* Stop attempts between loop starts and cancellations.
NextRalph ==
    \/ Stops
    \/ \E n \in 0 .. IterBound : StartLoop(n)
    \/ CancelRalph

SpecRalph == InitRalph /\ [][NextRalph]_vars

\* One loop: stop attempts on the state file it began with.  A blocked stop
\* re-feeds the prompt and the session attempts to stop again, so stop
\* attempts keep coming.
NextRalphRun == Stops

SpecRalphRun == InitRalph /\ [][NextRalphRun]_vars /\ WF_vars(NextRalphRun)


\* ------------------------------------------------------------------------
\* Properties
\* ------------------------------------------------------------------------
\* vars led by the kind of the last event: the states before and after an
\* event of another kind differ there, and the values of two events are
\* compared only when the events are of one kind.
step == <<ev.type, ev.key, vars>>

Flags == <<isPanning, isDragSelecting, isBrushPainting>>
NoFlagSet(f) == f = <<FALSE, FALSE, FALSE>>
MatchesBrush(t) == t.terrain = brushTerrain /\ t.tier = brushTier

\* C1: stroke idempotence.  While a brush stroke runs with the brush and the
\* tiles touched by nothing but its own paints, every tile has been mutated
\* exactly once if a paint was attempted on it and it differed from the brush
\* when the stroke began, and not at all otherwise, however many attempts
\* were made on it and on the other tiles.
C1_StrokeIdempotence ==
    (isBrushPainting /\ stroke.fixed) =>
        \A id \in TileIds :
            stroke.paints[id] =
                IF stroke.visits[id] >= 1 /\ id \in stroke.startDiff THEN 1 ELSE 0

\* A stroke that passed twice over a tile that differed and twice over one
\* that matched.
C1_Witness ==
    /\ isBrushPainting /\ stroke.fixed
    /\ \E a, b \in TileIds :
          /\ a # b
          /\ stroke.visits[a] >= 2 /\ a \in stroke.startDiff /\ stroke.paints[a] = 1
          /\ stroke.visits[b] >= 2 /\ b \notin stroke.startDiff /\ stroke.paints[b] = 0

\* A paint attempt on the h-th tile is being made by this step: the initial
\* paint of a brush stroke, or a move of one.
PaintAttempt(h) ==
    /\ h # 0
    /\ ev'.hex = h
    /\ \/ ev'.type = "move" /\ isBrushPainting /\ brushEnabled
       \/ ev'.type = "down" /\ ev'.val = 0 /\ brushEnabled /\ editMode = "terrain"

\* The painted record the attempt meets (a stroke start clears it first).
RecordMet == IF ev'.type = "down" THEN {} ELSE paintedInStroke

\* C2: a paint attempt on a tile that already has the brush's terrain and
\* tier changes neither the document nor the painted record; an attempt on
\* any other tile not yet in the record gives the tile the brush's terrain
\* and tier and adds its id to the record.
C2_PaintOperation ==
    [][\A h \in TileIds : PaintAttempt(h) =>
          IF MatchesBrush(data.map[h])
          THEN data' = data /\ paintedInStroke' = RecordMet
          ELSE data.map[h].id \notin RecordMet =>
                  /\ data'.map[h].terrain = brushTerrain
                  /\ data'.map[h].tier = brushTier
                  /\ paintedInStroke' = RecordMet \cup {data.map[h].id}]_step

\* The spec's example: one tile painted and recorded, then a move over a tile
\* that already matches, which stays out of the record.
C2_Witness ==
    /\ ev.type = "move" /\ ev.hex # 0
    /\ isBrushPainting /\ brushEnabled /\ stroke.fixed
    /\ MatchesBrush(data.map[ev.hex])
    /\ ev.hex \notin stroke.startDiff
    /\ data.map[ev.hex].id \notin paintedInStroke
    /\ paintedInStroke # {}

\* C4: at most one of the three stroke flags is set.
C4_FlagsExclusive ==
    Cardinality({i \in 1 .. 3 : Flags[i]}) <= 1

\* A pointer-down that began a pan stroke while a brush stroke, never ended
\* by a pointer-up, still had its painted record: only the pan flag is set.
C4_Witness ==
    /\ ev.type = "down" /\ ev.val = 0
    /\ isPanning /\ brushEnabled /\ ev.ctrl
    /\ paintedInStroke # {}


\* What a move of a brush stroke does to the tile under the pointer.
MovePaints ==
    (ev'.hex # 0 /\ ~MatchesBrush(data.map[ev'.hex])
       /\ data.map[ev'.hex].id \notin paintedInStroke) =>
        /\ data'.map[ev'.hex].terrain = brushTerrain
        /\ data'.map[ev'.hex].tier = brushTier

\* What a move of a drag-select stroke does with the tile under the pointer.
MoveSelects ==
    ev'.hex # 0 =>
        /\ data.map[ev'.hex].id \in selectedMultiple'
        /\ selected' = data.map[ev'.hex]

MovePans ==
    offset' = [x |-> ev'.val.x - start.x, y |-> ev'.val.y - start.y]

SelectionKept == selected' = selected /\ selectedMultiple' = selectedMultiple

C5_RecordOnlyInBrushStroke ==
    /\ ev.type \in {"up", "leave"} => (NoFlagSet(Flags) /\ paintedInStroke = {})
    /\ paintedInStroke # {} => isBrushPainting

BrushDown ==
    ev'.type = "down" /\ ev'.val = 0 /\ brushEnabled /\ editMode = "terrain"

\* C5 as amended: pointer-up and pointer-leave do the same cleanup (no flag
\* set, painted record empty); the record gains ids only by the paints of a
\* brush stroke and is cleared at the start of every brush stroke, so a tile
\* painted in one stroke is evaluated afresh at the start of the next brush
\* stroke and mutated again if it differs from the brush.
C5_RecordClearedAtStrokeEnds ==
    [][/\ ev'.type \in {"up", "leave"} =>
             (NoFlagSet(Flags') /\ paintedInStroke' = {})
       /\ paintedInStroke' \ paintedInStroke # {} =>
             (isBrushPainting' /\ ev'.type \in {"down", "move"})
       /\ BrushDown =>
             /\ paintedInStroke' \subseteq {ev'.hex}
             /\ (ev'.hex # 0 /\ ~MatchesBrush(data.map[ev'.hex])) =>
                   /\ paintedInStroke' = {data.map[ev'.hex].id}
                   /\ MatchesBrush(data'.map[ev'.hex])]_step

\* A pointer-leave that ended a brush stroke which had painted every tile.
C5_Witness ==
    /\ ev.type = "leave" /\ ev.val = TileIds
    /\ NoFlagSet(Flags) /\ paintedInStroke = {}

CtrlClick == ev'.type = "click" /\ ev'.ctrl /\ editMode = "terrain"
Focus == IF selected = Null THEN 0 ELSE selected.id

\* C6: a modifier-click on tile T in terrain mode first adds the focus O to
\* an empty multi-set when O is another tile, then toggles T's membership,
\* and makes T the focus either way; click A, modifier-click B,
\* modifier-click A ends with multi-set {B} and focus A.
C6_ModifierClick ==
    [][CtrlClick =>
          LET T == data.map[ev'.hex]
              seed == IF selectedMultiple = {} /\ Focus \notin {0, T.id}
                      THEN {Focus} ELSE {}
              base == selectedMultiple \cup seed
          IN  /\ selectedMultiple' = (base \ {T.id}) \cup ({T.id} \ base)
              /\ selected' = T
              /\ \A A, B \in TileIds :
                    /\ (A # B /\ Focus = A /\ selectedMultiple = {} /\ T.id = B) =>
                          (selectedMultiple' = {A, B} /\ selected'.id = B)
                    /\ (A # B /\ Focus = B /\ selectedMultiple = {A, B} /\ T.id = A) =>
                          (selectedMultiple' = {B} /\ selected'.id = A)]_step

\* The end of the example: the clicked tile was removed from the multi-set,
\* which keeps another tile, and is the focus.
C6_Witness ==
    /\ ev.type = "click" /\ ev.ctrl /\ editMode = "terrain"
    /\ Focus = ev.hex
    /\ ev.hex \in ev.val /\ ev.hex \notin selectedMultiple
    /\ selectedMultiple # {}

\* C7: a plain click on tile T in terrain mode leaves focus = T and an empty
\* multi-set.
C7_PlainClick ==
    [][(ev'.type = "click" /\ ~ev'.ctrl /\ editMode = "terrain") =>
          (selected' = data.map[ev'.hex] /\ selectedMultiple' = {})]_step

\* A plain click that met a multi-set of two tiles.
C7_Witness ==
    /\ ev.type = "click" /\ ~ev.ctrl /\ editMode = "terrain"
    /\ Cardinality(ev.val) >= 2
    /\ Focus = ev.hex /\ selectedMultiple = {}

EditEvents ==
    {"panelTerrain", "panelWheel", "panelMinus", "panelPlus", "panelAsset", "wheel"}
TierEditEvents == {"panelWheel", "panelMinus", "panelPlus", "wheel"}
HexFields == {"id", "q", "r", "terrain", "tier", "asset"}

EditTargets ==
    IF selectedMultiple # {} THEN selectedMultiple
    ELSE IF selected # Null THEN {selected.id}
    ELSE {}

\* C9: a field edit writes the value to that field of exactly the tiles in
\* the multi-set when it is non-empty, else of exactly the focus tile, and
\* changes nothing with neither of them or with no document; every other
\* tile and field keeps its value.
C9_FieldEditFrame ==
    [][ev'.type \in EditEvents =>
          IF data = Null \/ ev'.key = "" THEN data' = data
          ELSE /\ DOMAIN data'.map = DOMAIN data.map
               /\ \A i \in DOMAIN data.map : \A f \in HexFields :
                     data'.map[i][f] =
                        IF data.map[i].id \in EditTargets /\ f = ev'.key
                        THEN ev'.val ELSE data.map[i][f]
               /\ [data' EXCEPT !.map = data.map] = data]_step

\* A terrain edit under a multi-set that does not hold the focus tile: the
\* tiles of the multi-set have the value, the focus tile has not.
C9_Witness ==
    /\ ev.type = "panelTerrain"
    /\ selectedMultiple # {} /\ Focus \notin selectedMultiple
    /\ \A i \in DOMAIN data.map :
          (data.map[i].terrain = ev.val) <=> (data.map[i].id \in selectedMultiple)

\* C10: the tier written by every tier-control edit lies within [0, 3],
\* whatever the tier of the edited tile was.
C10_TierClamp ==
    (ev.type \in TierEditEvents /\ ev.key = "tier") =>
        ev.val \in TierMin .. TierMax

ImportEvents == {"importPicker", "importInput"}
ImportFailed(e) == e.type \in ImportEvents /\ e.val.text \in {Malformed, Null}
ImportOk(e) == e.type \in ImportEvents /\ e.val.text \notin {Malformed, Null}

\* C11: a failed import (a text that does not parse, or the text "null") on
\* either import path leaves the document, the spawn set, the goal, the
\* focus, the multi-set, the edit mode and the remembered file handle and
\* file name exactly as they were.
C11_FailedImportAllOrNothing ==
    [][ImportFailed(ev') =>
          UNCHANGED <<data, spawnPoints, worldTree, selected, selectedMultiple,
                      editMode, lastFileHandle, lastFileName>>]_step

\* C12: every import that failed on a malformed text has shown the user the
\* blocking notice, on the file-picker path and on the file-input path.
C12_FailedImportReported ==
    (ev.type \in ImportEvents /\ ev.val.text = Malformed) => ev.key = "alert"

\* C13: after a successful import the focus is cleared and the multi-set is
\* empty, and a field edit or wheel event that follows the import changes no
\* tile of the new document.
C13_ImportClearsSelection ==
    [][/\ ImportOk(ev') => (selected' = Null /\ selectedMultiple' = {})
       /\ (ImportOk(ev) /\ ev'.type \in EditEvents) => data' = data]_step

\* C14: after a successful import the document is the imported one, the
\* spawn set and the goal are the document's spawnPoints and worldTree (the
\* empty set and none where the key is absent) whatever markers were set
\* before, and the edit mode is terrain.
C14_ImportSeedsMarkers ==
    ImportOk(ev) =>
        /\ data = ev.val.text
        /\ spawnPoints = IF "spawnPoints" \in DOMAIN ev.val.text
                         THEN ev.val.text.spawnPoints ELSE << >>
        /\ worldTree = IF "worldTree" \in DOMAIN ev.val.text
                       THEN ev.val.text.worldTree ELSE Null
        /\ editMode = "terrain"

\* An import of a document without marker keys that met a spawn point and a
\* goal: both are gone.
C14_Witness ==
    /\ ImportOk(ev)
    /\ DOMAIN ev.val.text \cap OptionalKeys = {}
    /\ ev.val.spawnPoints # << >> /\ ev.val.worldTree # Null
    /\ spawnPoints = << >> /\ worldTree = Null

WriteEvents == {"save", "export", "download"}

\* out has the fields of doc with equal values, an empty spawnPoints array
\* and an absent (or null) goal being left out.
SameDocument(out, doc) ==
    /\ DOMAIN out \ OptionalKeys = DOMAIN doc \ OptionalKeys
    /\ \A k \in DOMAIN doc \ OptionalKeys : out[k] = doc[k]
    /\ IF "spawnPoints" \in DOMAIN doc /\ Len(doc.spawnPoints) > 0
       THEN "spawnPoints" \in DOMAIN out /\ out.spawnPoints = doc.spawnPoints
       ELSE "spawnPoints" \notin DOMAIN out
    /\ IF "worldTree" \in DOMAIN doc /\ doc.worldTree # Null
       THEN "worldTree" \in DOMAIN out /\ out.worldTree = doc.worldTree
       ELSE "worldTree" \notin DOMAIN out

\* C15: round trip.  What save and export write while the document and the
\* markers are the ones an import produced equals the imported document
\* field by field, except that an empty spawnPoints array and an absent goal
\* are left out.
C15_RoundTrip ==
    (ev.type \in WriteEvents /\ pristine # Null) => SameDocument(ev.val, pristine)

\* A save right after the import of a document that lists one coordinate
\* twice and has a null goal: the list is written as it was, the goal key is
\* left out.
C15_Witness ==
    /\ ev.type = "save" /\ pristine # Null
    /\ "spawnPoints" \in DOMAIN pristine /\ Len(pristine.spawnPoints) = 2
    /\ pristine.spawnPoints[1] = pristine.spawnPoints[2]
    /\ ev.val.spawnPoints = pristine.spawnPoints
    /\ "worldTree" \in DOMAIN pristine /\ "worldTree" \notin DOMAIN ev.val

\* C16: what save and export write has the fields of the current document,
\* the current spawn set as spawnPoints and the current goal as worldTree;
\* spawnPoints is absent when the spawn set is empty and worldTree is absent
\* when the goal is none, whatever the imported document had under those
\* keys.
C16_ExportCurrentMarkers ==
    ev.type \in WriteEvents =>
        /\ DOMAIN ev.val \ OptionalKeys = DOMAIN data \ OptionalKeys
        /\ \A k \in DOMAIN data \ OptionalKeys : ev.val[k] = data[k]
        /\ IF Len(spawnPoints) > 0
           THEN "spawnPoints" \in DOMAIN ev.val /\ ev.val.spawnPoints = spawnPoints
           ELSE "spawnPoints" \notin DOMAIN ev.val
        /\ IF worldTree # Null
           THEN "worldTree" \in DOMAIN ev.val /\ ev.val.worldTree = worldTree
           ELSE "worldTree" \notin DOMAIN ev.val

\* An export of a document imported with a spawn list and a goal, after the
\* spawn set was emptied and the goal moved: spawnPoints is absent and
\* worldTree is the new goal.
C16_Witness ==
    /\ ev.type = "export"
    /\ "spawnPoints" \in DOMAIN data /\ Len(data.spawnPoints) > 0
    /\ spawnPoints = << >> /\ "spawnPoints" \notin DOMAIN ev.val
    /\ "worldTree" \in DOMAIN data /\ data.worldTree # Null
    /\ worldTree # Null /\ worldTree # data.worldTree
    /\ ev.val.worldTree = worldTree

GoalSet(e) == e.type = "click" /\ e.key = "goal"
CoordOf(h) == [q |-> h - 1, r |-> 0]
Range(list) == {list[i] : i \in DOMAIN list}

\* C17 as stated: two consecutive goal-set operations at p leave goal = none,
\* whatever the goal was before them (none, p or another coordinate).
C17_GoalSetTwiceClears ==
    (GoalSet(ev) /\ ev.val.first # Undefined) => worldTree = Null

\* C17 as amended: two consecutive goal-set operations at p leave goal = none
\* when the goal before them was none or another coordinate, and leave
\* goal = p when it was p (the first clears it, the second sets it again).
C17_GoalSetTwice ==
    (GoalSet(ev) /\ ev.val.first # Undefined) =>
        worldTree = IF ev.val.first.val = CoordOf(ev.hex) THEN CoordOf(ev.hex) ELSE Null

\* Two consecutive goal-sets at the goal's own coordinate: the goal is there
\* again.
C17_Witness ==
    /\ GoalSet(ev) /\ ev.val.first # Undefined
    /\ ev.val.first.val = CoordOf(ev.hex)
    /\ worldTree = CoordOf(ev.hex)

\* C18: a spawn toggle at p changes the membership of p in the spawn set and
\* of no other coordinate; two consecutive toggles at p leave the spawn set,
\* as a set of coordinates, as it was before them.
C18_SpawnToggle ==
    ev.key = "spawn" =>
        /\ Range(spawnPoints) =
              (Range(ev.val.before) \ {CoordOf(ev.hex)})
                 \cup ({CoordOf(ev.hex)} \ Range(ev.val.before))
        /\ ev.val.first # Undefined => Range(spawnPoints) = Range(ev.val.first.val)

\* Two consecutive toggles at a coordinate that an imported list held twice,
\* beside another coordinate: the same set, in a different list.
C18_Witness ==
    /\ ev.key = "spawn" /\ ev.val.first # Undefined
    /\ Len(ev.val.first.val) = 3
    /\ Range(spawnPoints) = Range(ev.val.first.val)
    /\ Len(spawnPoints) = 2

\* C19: the goal is none or one coordinate; a goal-set at p when the goal is
\* p clears it, a goal-set at p when the goal is none or another coordinate
\* makes the goal p.
C19_GoalSet ==
    /\ worldTree = Null \/ worldTree \in Coords
    /\ GoalSet(ev) =>
          worldTree = IF ev.val.before = CoordOf(ev.hex) THEN Null ELSE CoordOf(ev.hex)

\* A goal-set that replaced a goal at another coordinate.
C19_Witness ==
    /\ GoalSet(ev)
    /\ ev.val.before \notin {Null, CoordOf(ev.hex)}
    /\ worldTree = CoordOf(ev.hex)

\* C20: the spawn list holds no coordinate twice.
C20_SpawnPointsDistinct ==
    \A i, j \in DOMAIN spawnPoints : i # j => spawnPoints[i] # spawnPoints[j]

\* C21: a tile click in spawn mode toggles the tile's coordinate in the spawn
\* set and a tile click in goal mode sets or clears the goal at the tile's
\* coordinate; either leaves the focus, the multi-set, the document and the
\* other marker as they were, with or without a modifier key.
C21_MarkerClickFrame ==
    [][(ev'.type = "click" /\ editMode \in {"spawn", "goal"}) =>
          /\ selected' = selected /\ selectedMultiple' = selectedMultiple
          /\ data' = data
          /\ IF editMode = "spawn"
             THEN /\ worldTree' = worldTree
                  /\ Range(spawnPoints') =
                        (Range(spawnPoints) \ {CoordOf(ev'.hex)})
                           \cup ({CoordOf(ev'.hex)} \ Range(spawnPoints))
             ELSE /\ spawnPoints' = spawnPoints
                  /\ worldTree' = IF worldTree = CoordOf(ev'.hex)
                                  THEN Null ELSE CoordOf(ev'.hex)]_step

\* A modifier-click in spawn mode on a tile other than the focus, under a
\* multi-set and a goal: the coordinate was added, the selection stayed.
C21_Witness ==
    /\ ev.type = "click" /\ ev.key = "spawn" /\ ev.ctrl
    /\ selected # Null /\ selected.id # ev.hex
    /\ selectedMultiple # {} /\ ev.hex \notin selectedMultiple
    /\ worldTree # Null
    /\ CoordOf(ev.hex) \in Range(spawnPoints)

InputEvents == {"click", "wheel", "down", "move", "up", "leave"}

\* C22: a switch of the edit mode leaves the focus and the multi-set as they
\* were, and while the edit mode is spawn or goal no tile click, wheel event
\* or pointer event changes the document.
C22_MarkerModeFrame ==
    [][/\ ev'.type = "mode" =>
             (selected' = selected /\ selectedMultiple' = selectedMultiple)
       /\ (editMode \in {"spawn", "goal"} /\ ev'.type \in InputEvents) =>
             data' = data]_step


\* The offset that stagger adds to the center of the tile of the call a.
StaggerOffset(a) ==
    LET on == Place([a EXCEPT !.stagger = TRUE])
        off == Place([a EXCEPT !.stagger = FALSE])
    IN  [x |-> on.x - off.x, y |-> on.y - off.y]

\* C23: in both components, for every tile coordinate, orientation, layout
\* mode and maxR, the offset that stagger adds to a pixel center is the same
\* with mirror on and with mirror off; with pointy, rect, stagger, mirror
\* and maxR = 1 the centers of (0,0) and (0,1) differ in x by the stagger
\* offset of row 1.
C23_MirrorStaggerIndependence ==
    (probe # Null /\ probe.fn = "axialToPixel" /\ probe.out # Undefined) =>
        LET a == probe.args
            c == probe.out.val
            plain == Place([a EXCEPT !.stagger = FALSE])
            added == [x |-> c.x - plain.x, y |-> c.y - plain.y]
        IN  /\ a.stagger => added = StaggerOffset([a EXCEPT !.mirror = ~a.mirror])
            /\ (/\ a.q = 0 /\ a.r = 1 /\ a.maxR = 1 /\ a.orientation = "pointy"
                /\ a.rect /\ a.stagger /\ a.mirror) =>
                    c.x - Place([a EXCEPT !.r = 0]).x
                        = StaggerOffset([a EXCEPT !.mirror = FALSE]).x

\* The same for the TypeScript component alone.
C23_MirrorStaggerIndependenceTsx ==
    (probe # Null /\ probe.fn = "axialToPixel" /\ probe.args.variant = "part_000") =>
        C23_MirrorStaggerIndependence

\* The tiles of document d within the threshold of point pt.
Within(d, pt) ==
    {i \in DOMAIN d.map : DistSq(d, pt.x, pt.y, Center(d, d.map[i])) < ThresholdSq(d)}

HitDone == probe # Null /\ probe.fn = "findHexAtPoint" /\ probe.out # Undefined

\* C24: the hit tester returns, among the tiles whose center is at a distance
\* strictly below 0.9 x tile size from the point, the one at minimum
\* distance, the first in document order among several at that minimum; it
\* returns none exactly when no tile is within the threshold or no document
\* is loaded.
C24_HitTester ==
    HitDone =>
        LET d == probe.doc
            pt == probe.pt
            out == probe.out.val
            D(i) == DistSq(d, pt.x, pt.y, Center(d, d.map[i]))
        IN  IF d = Null THEN out = 0
            ELSE /\ out = 0 <=> Within(d, pt) = {}
                 /\ out # 0 =>
                      /\ out \in Within(d, pt)
                      /\ \A j \in Within(d, pt) :
                            D(out) < D(j) \/ (D(out) = D(j) /\ out <= j)

\* Two tiles within the threshold at the same minimum distance.
C24_Witness ==
    /\ HitDone
    /\ probe.doc # Null
    /\ probe.out.val # 0
    /\ \E j \in Within(probe.doc, probe.pt) :
          /\ j # probe.out.val
          /\ DistSq(probe.doc, probe.pt.x, probe.pt.y, Center(probe.doc, probe.doc.map[j]))
               = DistSq(probe.doc, probe.pt.x, probe.pt.y,
                        Center(probe.doc, probe.doc.map[probe.out.val]))

\* A tile at exactly 0.9 x tile size from the point is not found.
C24_WitnessBoundary ==
    /\ HitDone
    /\ probe.doc # Null
    /\ probe.out.val = 0
    /\ \E i \in DOMAIN probe.doc.map :
          DistSq(probe.doc, probe.pt.x, probe.pt.y, Center(probe.doc, probe.doc.map[i]))
             = ThresholdSq(probe.doc)


\* The keys of the tiles of document d, in document order.
Keys(d) == [i \in DOMAIN d.map |-> <<d.map[i].id, d.map[i].q, d.map[i].r>>]

Distinct(d) ==
    \A i \in DOMAIN d.map : \A j \in DOMAIN d.map :
        i # j => /\ d.map[i].id # d.map[j].id
                 /\ <<d.map[i].q, d.map[i].r>> # <<d.map[j].q, d.map[j].r>>

\* C25: no editing operation (field edit, wheel edit, brush stroke, marker
\* toggle) adds, removes, reorders or re-keys a tile, so a document with
\* pairwise distinct ids and (q, r) pairs keeps them distinct.
C25_EditingKeepsKeys ==
    [][(data # Null /\ ev'.type \notin {"load"} \cup ImportEvents) =>
          /\ data' # Null
          /\ Keys(data') = Keys(data)
          /\ Distinct(data) => Distinct(data')]_step

\* A brush paint of a tile that a field or wheel edit had changed, on a
\* document with spawn points and a goal.
C25_Witness ==
    /\ ev.type = "move"
    /\ data # Null /\ Distinct(data)
    /\ stroke.fixed /\ stroke.paints[1] > 0
    /\ Len(spawnPoints) > 0
    /\ worldTree # Null

\* C26: while a loop is active, every stop attempt is blocked (exit code 2
\* with a block decision, the stored iteration incremented by exactly one)
\* unless the completion promise is in the transcript or the stored
\* iteration has reached maxIterations: every stop allowed for an active
\* loop is due to one of the two.
C26_ActiveLoopBlocks ==
    (hook # Null /\ hook.before # Null /\ hook.before.active) =>
        IF \/ hook.transcript = "promise"
           \/ hook.before.iteration >= hook.before.maxIterations
        THEN hook.exit = 0
        ELSE /\ hook.exit = 2
             /\ hook.decision = "block"
             /\ hook.after = [hook.before EXCEPT !.iteration = @ + 1]

\* C27: from a state file with iteration <= maxIterations the hook blocks
\* at most maxIterations - iteration stop attempts and the stored iteration
\* never exceeds maxIterations; a stop attempt is eventually allowed, also
\* when the completion promise is never output.
C27_Bounded ==
    (loop.start # Null /\ loop.start.iteration <= loop.start.maxIterations) =>
        /\ loop.blocked <= loop.start.maxIterations - loop.start.iteration
        /\ stateFile.iteration <= stateFile.maxIterations
        /\ stateFile.maxIterations = loop.start.maxIterations

C27_Termination ==
    /\ []C27_Bounded
    /\ <>(hook # Null /\ hook.exit = 0)

\* A stop allowed because the iteration reached maxIterations, after every
\* block the bound admits.
C27_Witness ==
    /\ hook # Null /\ hook.exit = 0
    /\ ~hook.stopHookActive /\ hook.transcript = "plain"
    /\ hook.before # Null /\ hook.before.active
    /\ hook.before.iteration = hook.before.maxIterations
    /\ loop.start.iteration = 0
    /\ loop.blocked = loop.start.maxIterations
    /\ loop.blocked > 1

\* C28: once the cancel command has set active = false, every run of the
\* hook allows the stop and leaves the state file as it is, until a new loop
\* is started; without a state file the hook allows the stop and creates
\* nothing.
C28_CancelledLoopStops ==
    [][/\ (loop'.last = "hook" /\ (stateFile = Null \/ loop.cancelled)) =>
             /\ hook'.exit = 0
             /\ hook'.decision = ""
             /\ stateFile' = stateFile
       /\ (loop.cancelled /\ loop'.last # "start") =>
             (loop'.cancelled /\ stateFile # Null /\ ~stateFile'.active)]_step

\* A stop allowed for no reason but the cancellation.
C28_Witness ==
    /\ loop.cancelled /\ loop.last = "hook"
    /\ hook.exit = 0
    /\ ~hook.stopHookActive /\ hook.transcript = "plain"
    /\ hook.before # Null
    /\ hook.before.iteration < hook.before.maxIterations
    /\ stateFile = hook.before


\* C29: at pointer-down with the primary button the stroke is a brush stroke
\* if the brush is enabled and the edit mode is terrain, with or without a
\* modifier key; else a drag-select if a modifier key is held and the edit
\* mode is terrain; else a pan.  In spawn and goal mode every stroke is a
\* pan; a non-primary button starts no stroke and changes no state.
C29_StrokeModeAtDown ==
    [][ev'.type = "down" =>
          IF ev'.val # 0
          THEN UNCHANGED <<data, selected, selectedMultiple, editMode, spawnPoints,
                           worldTree, brushEnabled, brushTerrain, brushTier,
                           isBrushPainting, paintedInStroke, isPanning,
                           isDragSelecting, offset, start, defaultLoad,
                           lastFileHandle, lastFileName>>
          ELSE LET brush == brushEnabled /\ editMode = "terrain"
                   drag == ~brush /\ ev'.ctrl /\ editMode = "terrain"
                   pan == ~brush /\ ~drag
               IN  /\ Flags' = <<pan, drag, brush>>
                   /\ editMode \in {"spawn", "goal"} => Flags' = <<TRUE, FALSE, FALSE>>]_step

\* A pointer-down with a modifier key held that starts a brush stroke.
C29_Witness ==
    /\ ev.type = "down" /\ ev.val = 0 /\ ev.ctrl
    /\ brushEnabled /\ editMode = "terrain"
    /\ Flags = <<FALSE, FALSE, TRUE>>

\* C30: a brush paint of tile T sets the terrain and the tier of T to the
\* brush values and changes nothing else: the id, q, r and asset of T, every
\* other tile, the tile order, hexSize, orientation, the spawn set and the
\* goal stay as they are.
C30_PaintFrame ==
    [][(ev'.type \in {"down", "move"} /\ data' # data) =>
          /\ ev'.hex # 0
          /\ data' = [data EXCEPT !.map[ev'.hex].terrain = brushTerrain,
                                  !.map[ev'.hex].tier = brushTier]
          /\ spawnPoints' = spawnPoints
          /\ worldTree' = worldTree]_step

\* A paint of a tile that has an asset, on a document with spawn points and
\* a goal.
C30_Witness ==
    /\ ev.type \in {"down", "move"} /\ ev.hex = 1
    /\ stroke.fixed /\ stroke.paints[1] > 0
    /\ data.map[1].asset = "tree"
    /\ data.map[1].terrain = brushTerrain /\ data.map[1].tier = brushTier
    /\ Len(spawnPoints) > 0
    /\ worldTree # Null


\* C37: with stagger on, every odd row (pointy) or column (flat), negative
\* ones included, is shifted by the same positive half tile width along the
\* cross axis and every even one by zero; with stagger off no tile is
\* shifted.
C37_StaggerHalfTile ==
    (probe # Null /\ probe.fn = "axialToPixel" /\ probe.out # Undefined) =>
        LET a == probe.args
            c == probe.out.val
            plain == Place([a EXCEPT !.stagger = FALSE])
            added == [x |-> c.x - plain.x, y |-> c.y - plain.y]
            half(n) == IF n % 2 = 1 THEN a.size \div 2 ELSE 0
        IN  IF ~a.stagger THEN added = [x |-> 0, y |-> 0]
            ELSE IF a.orientation = "pointy"
            THEN added = [x |-> half(a.r), y |-> 0]
            ELSE added = [x |-> 0, y |-> half(a.q)]

\* The same for rows and columns that are not negative.
C37_StaggerHalfTileFromZero ==
    (probe # Null /\ probe.fn = "axialToPixel" /\ probe.args.variant = "part_000"
       /\ probe.args.q >= 0 /\ probe.args.r >= 0) =>
        C37_StaggerHalfTile


\* C38: whenever the hook allows a stop for a loop that was active on entry,
\* the state file has active = false afterwards.
C38_AllowedStopDeactivates ==
    (hook # Null /\ hook.before # Null /\ hook.before.active /\ hook.exit = 0) =>
        ~hook.after.active

\* The same for the runs in which stop_hook_active is false.
C38_AllowedStopDeactivatesFirstTry ==
    (hook # Null /\ ~hook.stopHookActive) => C38_AllowedStopDeactivates


TiersIn(d, lo, hi) == \A i \in DOMAIN d.map : d.map[i].tier \in lo .. hi

\* C31: when every tier of the loaded document is within [0, 3], every tier
\* is within [0, 3] after any sequence of brush strokes, canvas and panel
\* wheel edits and button edits, under single and multi selection.
C31_TierRange ==
    data # Null => TiersIn(data, TierMin, TierMax)

\* The '-' button pressed at the lower end under a multi selection of all
\* tiles, with the brush on.
C31_Witness ==
    /\ ev.type = "panelMinus"
    /\ selectedMultiple = TileIds
    /\ brushEnabled /\ brushTier = TierMax
    /\ TiersIn(data, TierMin, TierMin)


\* C32: a canvas wheel event in terrain mode with a non-empty multi-set
\* writes one value, the focus tier (0 without a focus) plus or minus one
\* clamped to [0, 3], to the tier of every tile of the multi-set; a focus
\* tile outside the multi-set keeps its tier in the document and in the
\* focus record.
C32_WheelOnMultiSet ==
    [][(ev'.type = "wheel" /\ data # Null /\ editMode = "terrain"
          /\ selectedMultiple # {}) =>
          \E delta \in {0 - 1, 1} :
             LET base == IF selected # Null THEN selected.tier ELSE 0
                 sum == base + delta
                 v == IF sum < TierMin THEN TierMin
                      ELSE IF sum > TierMax THEN TierMax ELSE sum
             IN  /\ data' = [data EXCEPT !.map = [i \in DOMAIN data.map |->
                                IF data.map[i].id \in selectedMultiple
                                THEN [data.map[i] EXCEPT !.tier = v]
                                ELSE data.map[i]]]
                 /\ (selected # Null /\ selected.id \notin selectedMultiple) =>
                        selected' = selected
                 /\ (selected # Null /\ selected.id \in selectedMultiple) =>
                        selected' = [selected EXCEPT !.tier = v]]_step

\* A wheel edit on a multi-set that does not hold the focus tile, whose tier
\* differs from the value written.
C32_Witness ==
    /\ ev.type = "wheel" /\ ev.key = "tier"
    /\ selectedMultiple # {}
    /\ selected # Null /\ selected.id \notin selectedMultiple
    /\ selected.tier # ev.val
    /\ \A i \in DOMAIN data.map :
          data.map[i].id \in selectedMultiple => data.map[i].tier = ev.val

\* A wheel edit on a multi-set without a focus tile.
C32_WitnessNoFocus ==
    /\ ev.type = "wheel" /\ ev.key = "tier" /\ ev.val = 1
    /\ selectedMultiple # {} /\ selected = Null


\* C33: whenever a focus tile is set, the terrain, tier and asset of the
\* focus record are those of the document tile with the same id, after any
\* sequence of clicks, modifier-clicks, drag-selects, field edits, wheel
\* edits and brush strokes.
C33_FocusConsistent ==
    (selected # Null /\ data # Null) =>
        \E i \in DOMAIN data.map :
            /\ data.map[i].id = selected.id
            /\ data.map[i].terrain = selected.terrain
            /\ data.map[i].tier = selected.tier
            /\ data.map[i].asset = selected.asset


\* A drag-select stroke has just ended with pointer-up, and all it did was
\* to add tile h, which was not in the multi-set at pointer-down, and to
\* make it the focus.
DragGestureOn(h) ==
    /\ ev.type = "up"
    /\ stroke.dragOnly
    /\ h \notin stroke.base
    /\ selectedMultiple = stroke.base \cup {h}
    /\ selected # Null /\ selected.id = h

\* C34: a modifier-held gesture on a tile T outside the multi-set
\* (pointer-down, pointer-moves that resolve to T, pointer-up, then the click
\* delivered to T) ends with T in the multi-set and T as the focus.
C34_DragThenClick ==
    [][(ev'.type = "click" /\ ev'.ctrl /\ editMode = "terrain"
          /\ DragGestureOn(ev'.hex)) =>
          /\ ev'.hex \in selectedMultiple'
          /\ selected' # Null /\ selected'.id = ev'.hex]_step

\* The same gesture without a pointer-move: the click alone adds T.
C34_PressThenClick ==
    [][(ev'.type = "click" /\ ev'.ctrl /\ editMode = "terrain"
          /\ ev.type = "up" /\ stroke.dragOnly /\ selectedMultiple = stroke.base
          /\ ev'.hex \notin stroke.base) =>
          /\ ev'.hex \in selectedMultiple'
          /\ selected' # Null /\ selected'.id = ev'.hex]_step


\* The id of the focus tile, 0 without one.
FocusId == IF selected = Null THEN 0 ELSE selected.id

\* The pointer events of a brush stroke leave the focus and the multi-set
\* alone.
C35_BrushStrokeKeepsSelection ==
    [][(ev'.type \in {"down", "move", "up", "leave"}
          /\ (isBrushPainting \/ isBrushPainting')) =>
          (FocusId' = FocusId /\ selectedMultiple' = selectedMultiple)]_step

\* C35: with the brush enabled in terrain mode, a press-release gesture on a
\* tile, the click delivered to the tile after the release included, leaves
\* the focus tile and the multi-set as they were before the gesture: neither
\* the pointer events of the brush stroke nor the click that follows the
\* release on a tile painted in the stroke change them.
C35_BrushGestureKeepsSelection ==
    [][/\ (ev'.type \in {"down", "move", "up", "leave"}
            /\ (isBrushPainting \/ isBrushPainting')) =>
             (FocusId' = FocusId /\ selectedMultiple' = selectedMultiple)
       /\ (ev'.type = "click" /\ ev.type = "up" /\ ev'.hex \in ev.val
            /\ brushEnabled /\ editMode = "terrain") =>
             (FocusId' = FocusId /\ selectedMultiple' = selectedMultiple)]_step


\* C36: for every pan offset and zoom scale, the tile that the hit tester
\* resolves for a pointer sample of a stroke is the tile drawn under the
\* pointer: with the pointer over the center of a tile that the svg shows,
\* findHexAtPoint of the converted position is that tile.
C36_HitTesterResolvesDrawnTile ==
    (probe # Null /\ probe.fn = "pointerSample" /\ probe.out # Undefined /\ probe.shown)
        => probe.out = Field(probe.tile)

\* Without pan and zoom the converted position is the center itself and the
\* hit tester resolves the tile drawn there, wherever the svg element lies
\* and however large it is laid out.
C36_UntransformedResolvesDrawnTile ==
    (probe # Null /\ probe.fn = "pointerSample" /\ probe.out # Undefined
        /\ probe.pan = [x |-> 0, y |-> 0] /\ probe.scale = 100)
        => (probe.shown /\ probe.out = Field(probe.tile))


\* C39: in the editor of App.jsx a tile click in paint mode overwrites
\* exactly the fields whose apply flag is set with the brush values, leaves
\* the other fields of the tile, every other tile and the selection as they
\* were; a tile click in select mode sets the selection to the tile and
\* changes no tile.
C39_PaintClickFrame ==
    [][ev'.type = "appClick" =>
        LET i == ev'.hex
            t == app.data.map[i]
            u == app'.data.map[i]
            b == app.paintBrush
        IN  IF app.paintMode
            THEN /\ u.terrain = (IF b.applyTerrain THEN b.terrain ELSE t.terrain)
                 /\ u.height = (IF b.applyHeight THEN b.height ELSE t.height)
                 /\ u.texture = (IF b.applyTexture THEN b.texture ELSE t.texture)
                 /\ u.asset = (IF b.applyAsset THEN b.asset ELSE t.asset)
                 /\ u.id = t.id /\ u.q = t.q /\ u.r = t.r
                 /\ \A j \in TileIds : j # i => app'.data.map[j] = app.data.map[j]
                 /\ app'.data.hexSize = app.data.hexSize
                 /\ app'.data.orientation = app.data.orientation
                 /\ app'.selected = app.selected
            ELSE /\ app'.selected = t
                 /\ app'.data = app.data]_step

\* A paint click has just overwritten the height and the texture of tile 2
\* and left its terrain and asset, which differ from the brush, while
\* another tile is selected.
C39_Witness ==
    /\ app # Null
    /\ ev.type = "appClick" /\ ev.hex = 2
    /\ app.paintMode
    /\ app.paintBrush.applyHeight /\ app.paintBrush.applyTexture
    /\ ~app.paintBrush.applyTerrain /\ ~app.paintBrush.applyAsset
    /\ app.paintBrush.asset = "tree"
    /\ app.data.map[2].terrain = "water"
    /\ app.data.map[2].height = 1
    /\ app.data.map[2].texture = "rock"
    /\ app.data.map[2].asset = ""
    /\ app.selected # Null
    /\ app.data.map[1].texture = ""

\* A select click on a tile painted before has just made it the selection.
C39_WitnessSelect ==
    /\ app # Null
    /\ ev.type = "appClick" /\ ev.hex = 2
    /\ ~app.paintMode
    /\ app.selected = app.data.map[2]
    /\ app.data.map[2].texture = "rock"

=============================================================================
